---- MODULE Spec2Model ----
(***************************************************************************)
(* The job orchestration engine of smartrent-scraper:                      *)
(*   - ScrapingJobService (createScrapingJob, startBackgroundJob,          *)
(*     processScrapingJob, exportData) over the Job Store                  *)
(*     (JobManagementService) and the log store (ScrapingLogService);      *)
(*   - RateLimiter.waitIfNeeded;                                            *)
(*   - ScraperUtils.withRetry.                                              *)
(* Three specifications share the module: Spec (the orchestrator),         *)
(* RateLimiterSpec and RetrySpec.  Each leaves the other parts' variables  *)
(* at their initial values.                                                *)
(***************************************************************************)
EXTENDS Integers, Sequences, FiniteSets, TLC

VARIABLES
    store,          \* Job Store rows (prisma.scrapingJobs), by job id
    stamps,         \* history: how often startedAt / completedAt were written
    runningJobs,    \* ScrapingJobService.runningJobs (its key set)
    scrapingLogs,   \* log store rows (prisma.scrapingLogs), up to content
    proc,           \* per job: position and locals of processScrapingJob
    scraper,        \* per job: the adapter instance of the job
    hist,           \* per job: history of the collaborator calls made
    now,            \* RateLimiter: Date.now(), in milliseconds
    requests,       \* RateLimiter.requests
    config,         \* RateLimiter.config (RateLimitConfig)
    call,           \* RateLimiter: the waitIfNeeded call in flight
    released,       \* RateLimiter history: when each call returned
    waits,          \* RateLimiter history: per call, what it saw and slept
    rt,             \* withRetry: position, locals and history of one call
    scrapedProperties,  \* the rows of prisma.scrapedProperties
    xp,             \* DatabaseExporter: per exportProperty call, position and locals
    xlog,           \* history: the order the calls started and finished in
    sl,             \* BSDScraper.scrapePropertyList: position, locals and history of one call
    clock,          \* file exporters: new Date(), in milliseconds
    files,          \* the output directory: path -> the export call that wrote the file last
    fx,             \* file exporters: per exportProperties call, position and locals
    ad,             \* BSDScraper instances: this.browser and the browsers launched
    op,             \* BSDScraper: one getTotalPages / scrapePropertyList / scrapeProperty call and its page
    callers,        \* RateLimiter: per concurrent caller, its waitIfNeeded call in flight
    bx,             \* DatabaseExporter.exportProperties: position, locals and history of one batch call
    jobTable,       \* retention: the rows of prisma.scrapingJobs, with the day of completedAt
    today,          \* retention: Date.now(), in days
    lastCleanup     \* retention: the cutoff and the count of the last cleanupOldJobs call

jobVars == <<store, stamps, runningJobs, scrapingLogs, proc, scraper, hist>>
rlVars  == <<now, requests, config, call, released, waits>>
rtVars  == <<rt>>
dbVars  == <<scrapedProperties, xp, xlog>>
slVars  == <<sl>>
fxVars  == <<clock, files, fx>>
adVars  == <<ad>>
opVars  == <<op>>
clVars  == <<callers>>
bxVars  == <<bx>>
rnVars  == <<jobTable, today, lastCleanup>>
vars    == <<store, stamps, runningJobs, scrapingLogs, proc, scraper, hist,
             now, requests, config, call, released, waits, rt,
             scrapedProperties, xp, xlog,
             sl,
             clock, files, fx,
             ad,
             op,
             callers,
             bx,
             jobTable, today, lastCleanup>>

(***************************************************************************)
(* Bounds of the model.                                                    *)
(***************************************************************************)
MaxJobs      == 2   \* job ids the model knows
MaxPages     == 3   \* totalPages, start and limit range up to this
MaxRecords   == 1   \* records in one page's list
MaxExporters == 2   \* length of a job's destination list
MaxFaults    == 2   \* collaborator calls that raise, per job
MaxRpm       == 2   \* RateLimitConfig.requestsPerMinute ranges over 1..MaxRpm
MaxCalls     == 4   \* waitIfNeeded calls in one run
TickMs       == 10000   \* the clock advances in steps of TickMs between calls
MaxTime      == 130000  \* no call is issued after MaxTime
MaxAttempts  == 6   \* withRetry: maxRetries ranges over -1..MaxAttempts
MaxExports   == 3   \* exportProperty calls
MaxKeys      == 2   \* distinct sourceUrl values
MaxUrls      == 6   \* item URLs on a listing page
MaxFileExports == 3 \* exportProperties calls on file exporters
MaxClock     == 2   \* milliseconds that pass
MaxAdapters  == 1   \* BSDScraper instances
MaxAdapterCalls == 5 \* initialize and cleanup calls on one instance
MaxPageNumber == 3  \* the largest number a pagination link shows
MaxCallers   == 2   \* concurrent callers of one rate limiter
MaxBatch     == 3   \* records in one exportProperties batch
MaxRows      == 2   \* job rows ever created (retention)
MaxDays      == 3   \* days that pass (retention)
MaxDaysToKeep == 2  \* cleanupOldJobs: daysToKeep ranges over 0..MaxDaysToKeep

Jobs == 1..MaxJobs

\* The jobs the orchestrator specification creates: one job, every input and
\* every collaborator outcome.
SoloJobs == {1}

\* SUPPORTED_EXPORTERS = Object.values(ExporterType)
SUPPORTED_EXPORTERS == <<"database", "json", "csv">>

Min(a, b) == IF a <= b THEN a ELSE b
Max(a, b) == IF a >= b THEN a ELSE b

Reverse(q) == [i \in 1..Len(q) |-> q[Len(q) + 1 - i]]

\* Destination lists a request may carry (zod: at least one exporter, each a
\* supported one): the lists of up to MaxExporters supported exporters, in
\* the order of SUPPORTED_EXPORTERS and in the reverse order.
ExporterLists ==
    UNION {{SubSeq(SUPPORTED_EXPORTERS, 1, n), Reverse(SubSeq(SUPPORTED_EXPORTERS, 1, n))} :
              n \in 1..Min(MaxExporters, Len(SUPPORTED_EXPORTERS))}

\* <<a, a+1, ..., b>>, empty when b < a.
RangeSeq(a, b) == [i \in 1..Max(0, b - a + 1) |-> a + i - 1]

(***************************************************************************)
(* Job Store: JobManagementService.                                        *)
(***************************************************************************)
NoRow == [status |-> "none", itemsFound |-> 0, itemsProcessed |-> 0,
          errors |-> <<>>, startedAt |-> "null", completedAt |-> "null"]

\* A row created running, whatever status was asked for.
createdRowRunning(status) ==
    [status |-> "running", itemsFound |-> 0, itemsProcessed |-> 0, errors |-> <<>>,
     startedAt |-> "set", completedAt |-> "null"]

\* JobManagementService.createScrapingJob(source, status, config): the row
\* prisma creates.  errors: <<>> is null, <<e>> the payload e.
createdRow(status) ==
    [status |-> status, itemsFound |-> 0, itemsProcessed |-> 0, errors |-> <<>>,
     startedAt |-> IF status = "running" THEN "set" ELSE "null",
     completedAt |-> IF status \in {"completed", "failed"} THEN "set" ELSE "null"]

\* An update that stamps startedAt whatever the status is.
updateDataRestamps(updates) ==
    LET s == IF "status" \in DOMAIN updates THEN updates.status ELSE ""
        a == [startedAt |-> "set"] @@ updates
    IN  IF s \in {"completed", "failed"} THEN [completedAt |-> "set"] @@ a ELSE a

\* updateScrapingJob: updateData = {...updates} plus the timestamps the status
\* asks for.
updateData(updates) ==
    LET s == IF "status" \in DOMAIN updates THEN updates.status ELSE ""
        a == IF s = "running" /\ "startedAt" \notin DOMAIN updates
             THEN updates @@ [startedAt |-> "set"] ELSE updates
    IN  IF s \in {"completed", "failed"} THEN [completedAt |-> "set"] @@ a ELSE a

\* prisma.scrapingJobs.update({where: {id}, data}): the fields of data replace
\* the row's, the others stay.
updateScrapingJob(row, updates) == updateData(updates) @@ row

\* The timestamp writes an update makes, added to the history.
stampWrites(st, updates) ==
    LET d == updateData(updates)
    IN  [started   |-> st.started   + (IF "startedAt"   \in DOMAIN d THEN 1 ELSE 0),
         completed |-> st.completed + (IF "completedAt" \in DOMAIN d THEN 1 ELSE 0)]

\* prisma.scrapingJobs.count({ where: { status } }), over the rows there are
countJobs(rows, status) == Cardinality({j \in DOMAIN rows : rows[j].status = status})

\* JobManagementService.getJobStatistics
getJobStatistics(rows) ==
    [total     |-> Cardinality({j \in DOMAIN rows : rows[j] # NoRow}),
     pending   |-> countJobs(rows, "pending"),
     running   |-> countJobs(rows, "running"),
     completed |-> countJobs(rows, "completed"),
     failed    |-> countJobs(rows, "failed")]

\* ScrapingJobService.getStatistics, its jobs part: the size of the
\* running-job table is added to the count of running rows.
getStatistics(rows, table) ==
    LET jobStats == getJobStatistics(rows)
    IN  [total     |-> jobStats.total,
         pending   |-> jobStats.pending,
         running   |-> jobStats.running + Cardinality(table),
         completed |-> jobStats.completed,
         failed    |-> jobStats.failed]

(***************************************************************************)
(* Log store: ScrapingLogService.logScrapingEvent.  A failed create is     *)
(* swallowed: the row is simply not there.                                 *)
(***************************************************************************)
logScrapingEvent(logs, level, message, jobId, exporter, ok) ==
    IF ok THEN logs \cup {[level |-> level, message |-> message,
                           jobId |-> jobId, exporter |-> exporter]}
    ELSE logs

(***************************************************************************)
(* ScraperFactory.  Objects are references: NullRef is no object, the      *)
(* template registered at start-up is the first object there is.           *)
(***************************************************************************)
NullRef == 0
TemplateRef == 1

\* ScraperFactory.scrapers after ScraperFactory.register(WebsiteCode.BSD, new BSDScraper())
scrapers == [bsd |-> TemplateRef]

\* new BSDScraper(): an object that is none of the objects of the heap.
new(heap) == CHOOSE o \in 1..(Cardinality(heap) + 1) :
                 o \notin heap /\ \A q \in 1..(o - 1) : q \in heap

\* A copy that hands out the template itself.
copyShared(template, heap) == template

\* BSDScraper.copy(): return new BSDScraper()
copy(template, heap) == new(heap)

\* ScraperFactory.getScraper(websiteCode), for a registered website code
getScraper(websiteCode, heap) == copy(scrapers[websiteCode], heap)

(***************************************************************************)
(* processScrapingJob: locals and history of one job.                      *)
(***************************************************************************)
NoProc == [pc |-> "none", start |-> 0, limit |-> 0, exporters |-> <<>>,
           totalPages |-> -1, pageNum |-> 0, totalProperties |-> 0,
           pageProperties |-> 0, expIdx |-> 0, error |-> "", promise |-> "none"]

\* History of a job: the pages whose iteration began (visited), the pages
\* scrapePropertyList was called for, the pages whose fetch raised, the number
\* of record lists obtained and of records in them, the exporters invoked for
\* the page at hand, the number of exportProperties calls, the exporters that
\* threw, the steps outside the loop that raised, the number of collaborator
\* calls that raised (of exporter calls among them), the pages slept after,
\* the exportProperties calls made: <<page, exporter>>, in order.
NoHist == [visited |-> <<>>, scrapeCalls |-> <<>>, failedPages |-> {},
           pagesObtained |-> 0, obtained |-> 0, pageExports |-> <<>>,
           exportCalls |-> 0, exportThrew |-> {}, raised |-> {}, nfaults |-> 0,
           exportFaults |-> 0, sleeps |-> <<>>, exportLog |-> <<>>]

\* ref: the adapter object the job holds; NullRef before getScraper returned.
NoScraper == [state |-> "none", initialized |-> 0, cleaned |-> 0, ref |-> NullRef]

\* A collaborator call may raise while the job's fault budget lasts.
Outcomes(j) == IF hist[j].nfaults < MaxFaults THEN {TRUE, FALSE} ELSE {TRUE}

Fault(h, ok) == IF ok THEN h ELSE [h EXCEPT !.nfaults = @ + 1]

\* The loop condition with the page count off by one: limit + 1 pages.
loopCondOffByOne(pageNum, start, limit, totalPages) ==
    pageNum <= totalPages /\ (pageNum - start <= limit)

\* The loop condition without the bound of the page count.
loopCondNoTotal(pageNum, start, limit, totalPages) == pageNum - start + 1 <= limit

\* The loop condition of processScrapingJob.
loopCond(pageNum, start, limit, totalPages) ==
    pageNum <= totalPages /\ (pageNum - start + 1 <= limit)

JobInit ==
    /\ store = [j \in Jobs |-> NoRow]
    /\ stamps = [j \in Jobs |-> [started |-> 0, completed |-> 0]]
    /\ runningJobs = {}
    /\ scrapingLogs = {}
    /\ proc = [j \in Jobs |-> NoProc]
    /\ scraper = [j \in Jobs |-> NoScraper]
    /\ hist = [j \in Jobs |-> NoHist]

\* The error payload the catch block persists.
errorPayload(message) == [message |-> message, timestamp |-> "set"]

\* The adapter objects there are: the template and the instances handed out.
heapOf(scr) == {TemplateRef} \cup {scr[j].ref : j \in {k \in Jobs : scr[k].ref # NullRef}}

\* createScrapingJob, up to the job row: the row is created pending.  (A
\* create that raises leaves no row and no job: nothing changes.)
createScrapingJob(j, start, limit, exporters) ==
    /\ proc[j].pc = "none"
    /\ store' = [store EXCEPT ![j] = createdRow("pending")]
    /\ proc' = [proc EXCEPT ![j] = [NoProc EXCEPT !.pc = "created", !.start = start,
                                        !.limit = limit, !.exporters = exporters]]
    /\ UNCHANGED <<stamps, runningJobs, scrapingLogs, scraper, hist>>

\* A background job started only when no other job is in the table.
startBackgroundJobExclusive(j, resolved) ==
    /\ proc[j].pc = "created"
    /\ runningJobs = {}
    /\ runningJobs' = runningJobs \cup {j}
    /\ IF resolved
       THEN /\ proc' = [proc EXCEPT ![j].pc = "markRunning", ![j].promise = "pending"]
            /\ scraper' = [scraper EXCEPT ![j].state = "fresh",
                                          ![j].ref = getScraper("bsd", heapOf(scraper))]
            /\ hist' = hist
       ELSE /\ proc' = [proc EXCEPT ![j].pc = "settled", ![j].promise = "rejected"]
            /\ scraper' = scraper
            /\ hist' = [hist EXCEPT ![j] = [Fault(@, FALSE) EXCEPT !.raised = @ \cup {"resolve"}]]
    /\ UNCHANGED <<store, stamps, scrapingLogs>>

\* startBackgroundJob: processScrapingJob runs to its first await (the
\* exporters and the adapter are resolved, outside its try), the promise is
\* stored in runningJobs.
startBackgroundJob(j, resolved) ==
    /\ proc[j].pc = "created"
    /\ runningJobs' = runningJobs \cup {j}
    /\ IF resolved
       THEN /\ proc' = [proc EXCEPT ![j].pc = "markRunning", ![j].promise = "pending"]
            /\ scraper' = [scraper EXCEPT ![j].state = "fresh",
                                          ![j].ref = getScraper("bsd", heapOf(scraper))]
            /\ hist' = hist
       ELSE /\ proc' = [proc EXCEPT ![j].pc = "settled", ![j].promise = "rejected"]
            /\ scraper' = scraper
            /\ hist' = [hist EXCEPT ![j] = [Fault(@, FALSE) EXCEPT !.raised = @ \cup {"resolve"}]]
    /\ UNCHANGED <<store, stamps, scrapingLogs>>

\* try: updateScrapingJob(jobId, {status: 'running'}), then the start event.
MarkRunning(j, ok, logOk) ==
    /\ proc[j].pc = "markRunning"
    /\ IF ok
       THEN /\ store' = [store EXCEPT ![j] = updateScrapingJob(@, [status |-> "running"])]
            /\ stamps' = [stamps EXCEPT ![j] = stampWrites(@, [status |-> "running"])]
            /\ scrapingLogs' = logScrapingEvent(scrapingLogs, "info", "Starting scraping job", j, "", logOk)
            /\ proc' = [proc EXCEPT ![j].pc = "initialize"]
            /\ hist' = [hist EXCEPT ![j] = Fault(@, logOk)]
       ELSE /\ logOk
            /\ proc' = [proc EXCEPT ![j].pc = "markFailed", ![j].error = "markRunning"]
            /\ hist' = [hist EXCEPT ![j] = [Fault(@, FALSE) EXCEPT !.raised = @ \cup {"markRunning"}]]
            /\ UNCHANGED <<store, stamps, scrapingLogs>>
    /\ UNCHANGED <<runningJobs, scraper>>

\* await scraper.initialize()
Initialize(j, ok) ==
    /\ proc[j].pc = "initialize"
    /\ IF ok
       THEN /\ scraper' = [scraper EXCEPT ![j].state = "initialized", ![j].initialized = @ + 1]
            /\ proc' = [proc EXCEPT ![j].pc = "getTotalPages"]
            /\ hist' = hist
       ELSE /\ scraper' = scraper
            /\ proc' = [proc EXCEPT ![j].pc = "markFailed", ![j].error = "initialize"]
            /\ hist' = [hist EXCEPT ![j] = [Fault(@, FALSE) EXCEPT !.raised = @ \cup {"initialize"}]]
    /\ UNCHANGED <<store, stamps, runningJobs, scrapingLogs>>

\* const totalPages = await scraper.getTotalPages(url); pageNum = start
GetTotalPages(j, ok, n) ==
    /\ proc[j].pc = "getTotalPages"
    /\ IF ok
       THEN /\ proc' = [proc EXCEPT ![j].pc = "loop", ![j].totalPages = n,
                                    ![j].totalProperties = 0, ![j].pageNum = proc[j].start]
            /\ hist' = hist
       ELSE /\ proc' = [proc EXCEPT ![j].pc = "markFailed", ![j].error = "getTotalPages"]
            /\ hist' = [hist EXCEPT ![j] = [Fault(@, FALSE) EXCEPT !.raised = @ \cup {"getTotalPages"}]]
    /\ UNCHANGED <<store, stamps, runningJobs, scrapingLogs, scraper>>

\* A page failure that fails the job.
pageCatchFails(p) == [p EXCEPT !.pc = "markFailed", !.error = "page"]

\* A page failure that ends the loop.
pageCatchBreaks(p) == [p EXCEPT !.pc = "markCompleted"]

\* catch (pageError): logged; the for statement goes on with pageNum++.
pageCatch(p) == [p EXCEPT !.pc = "loop", !.pageNum = @ + 1]

\* The loop test and, in the loop's try, scraper.getPageUrl(url, pageNum).  A
\* getPageUrl that throws is caught by the page's catch: on to pageNum + 1.
LoopHead(j, urlOk) ==
    /\ proc[j].pc = "loop"
    /\ IF loopCond(proc[j].pageNum, proc[j].start, proc[j].limit, proc[j].totalPages)
       THEN IF urlOk
            THEN /\ proc' = [proc EXCEPT ![j].pc = "scrape"]
                 /\ hist' = [hist EXCEPT ![j].visited = Append(@, proc[j].pageNum),
                                         ![j].scrapeCalls = Append(@, proc[j].pageNum)]
            ELSE /\ proc' = [proc EXCEPT ![j] = pageCatch(@)]
                 /\ hist' = [hist EXCEPT ![j] = [Fault(@, FALSE) EXCEPT
                                !.visited = Append(@, proc[j].pageNum),
                                !.failedPages = @ \cup {proc[j].pageNum}]]
       ELSE /\ urlOk
            /\ proc' = [proc EXCEPT ![j].pc = "markCompleted"]
            /\ hist' = hist
    /\ UNCHANGED <<store, stamps, runningJobs, scrapingLogs, scraper>>

\* What follows the last exporter of a page: the inter-page sleep, or the
\* next iteration.
afterExport(p) ==
    IF p.pageNum < p.totalPages
    THEN [p EXCEPT !.pc = "sleep"]
    ELSE [p EXCEPT !.pc = "loop", !.pageNum = @ + 1]

\* const pageProperties = await scraper.scrapePropertyList(pageUrl);
\* totalProperties += pageProperties.length; exportData begins.
ScrapePropertyList(j, ok, n) ==
    /\ proc[j].pc = "scrape"
    /\ IF ok
       THEN /\ proc' = [proc EXCEPT ![j] =
                 LET p == [@ EXCEPT !.pageProperties = n,
                                    !.totalProperties = @ + n, !.expIdx = 1]
                 IN  IF Len(p.exporters) = 0 THEN afterExport(p) ELSE [p EXCEPT !.pc = "export"]]
            /\ hist' = [hist EXCEPT ![j].obtained = @ + n, ![j].pagesObtained = @ + 1,
                                    ![j].pageExports = <<>>]
       ELSE /\ n = 0
            /\ proc' = [proc EXCEPT ![j] = pageCatch(@)]
            /\ hist' = [hist EXCEPT ![j] = [Fault(@, FALSE) EXCEPT
                                !.failedPages = @ \cup {proc[j].pageNum}]]
    /\ UNCHANGED <<store, stamps, runningJobs, scrapingLogs, scraper>>

\* The fan-out given up at the first exporter that throws.
exportNextStops(p, ok) ==
    LET q == [p EXCEPT !.expIdx = IF ok THEN @ + 1 ELSE Len(p.exporters) + 1]
    IN  IF q.expIdx > Len(q.exporters) THEN afterExport(q) ELSE q

\* The fan-out left after its first exporter.
exportNextSkipsRest(p, ok) == afterExport(p)

\* An exporter that threw is invoked again.
exportNextRetries(p, ok) ==
    LET q == [p EXCEPT !.expIdx = IF ok THEN @ + 1 ELSE @]
    IN  IF q.expIdx > Len(q.exporters) THEN afterExport(q) ELSE q

\* exportData's for statement after one exporter returned (ok) or threw and
\* was caught: the next exporter either way, or the end of the fan-out.
exportNext(p, ok) ==
    LET q == [p EXCEPT !.expIdx = @ + 1]
    IN  IF q.expIdx > Len(q.exporters) THEN afterExport(q) ELSE q

\* exportData, one exporter: await exporter.exportProperties(properties); a
\* throw is caught and logged, the loop over the exporters goes on.
ExportProperties(j, ok, logOk) ==
    /\ proc[j].pc = "export"
    /\ LET e == proc[j].exporters[proc[j].expIdx]
       IN  /\ proc' = [proc EXCEPT ![j] = exportNext(@, ok)]
           /\ IF ok
              THEN /\ logOk
                   /\ scrapingLogs' = scrapingLogs
                   /\ hist' = [hist EXCEPT ![j].pageExports = Append(@, e),
                                           ![j].exportCalls = @ + 1,
                                           ![j].exportLog = Append(@, <<proc[j].pageNum, e, proc[j].pageProperties>>)]
              ELSE /\ scrapingLogs' = logScrapingEvent(scrapingLogs, "error", "Export failed", j, e, logOk)
                   /\ hist' = [hist EXCEPT ![j] = [Fault(Fault(@, FALSE), logOk) EXCEPT
                                   !.pageExports = Append(@, e),
                                   !.exportCalls = @ + 1,
                                   !.exportLog = Append(@, <<proc[j].pageNum, e, proc[j].pageProperties>>),
                                   !.exportFaults = @ + 1,
                                   !.exportThrew = @ \cup {e}]]
    /\ UNCHANGED <<store, stamps, runningJobs, scraper>>

\* await ScraperUtils.sleep(3000), then pageNum++
Sleep(j) ==
    /\ proc[j].pc = "sleep"
    /\ proc' = [proc EXCEPT ![j].pc = "loop", ![j].pageNum = @ + 1]
    /\ hist' = [hist EXCEPT ![j].sleeps = Append(@, proc[j].pageNum)]
    /\ UNCHANGED <<store, stamps, runningJobs, scrapingLogs, scraper>>

\* itemsProcessed left out of the final update.
completedUpdateFoundOnly(total) == [status |-> "completed", itemsFound |-> total]

\* The update that finalizes the job as completed.
completedUpdate(total) ==
    [status |-> "completed", itemsFound |-> total, itemsProcessed |-> total]

\* After the loop: updateScrapingJob(jobId, {status: 'completed', ...}), then
\* the completion event.  A raising update is caught by the outer catch.
MarkCompleted(j, ok, logOk) ==
    /\ proc[j].pc = "markCompleted"
    /\ IF ok
       THEN /\ store' = [store EXCEPT ![j] = updateScrapingJob(@, completedUpdate(proc[j].totalProperties))]
            /\ stamps' = [stamps EXCEPT ![j] = stampWrites(@, completedUpdate(proc[j].totalProperties))]
            /\ scrapingLogs' = logScrapingEvent(scrapingLogs, "info", "Scraping job completed successfully", j, "", logOk)
            /\ proc' = [proc EXCEPT ![j].pc = "cleanup"]
            /\ hist' = [hist EXCEPT ![j] = Fault(@, logOk)]
       ELSE /\ logOk
            /\ proc' = [proc EXCEPT ![j].pc = "markFailed", ![j].error = "markCompleted"]
            /\ hist' = [hist EXCEPT ![j] = [Fault(@, FALSE) EXCEPT !.raised = @ \cup {"markCompleted"}]]
            /\ UNCHANGED <<store, stamps, scrapingLogs>>
    /\ UNCHANGED <<runningJobs, scraper>>

\* The catch block persisting no error payload.
failedUpdateNoErrors(message) == [status |-> "failed"]

\* The catch block persisting the wrong status.
failedUpdateCompleted(message) ==
    [status |-> "completed", errors |-> <<errorPayload(message)>>]

\* The update the catch block makes.
failedUpdate(message) ==
    [status |-> "failed", errors |-> <<errorPayload(message)>>]

\* An error leaving the catch block past the finally block.
catchRethrowSkipsFinally(p) == [p EXCEPT !.pc = "settled", !.promise = "rejected"]

\* An error raised inside the catch block: the finally block runs, then the
\* promise rejects.
catchRethrow(p) == [p EXCEPT !.pc = "cleanup", !.promise = "rejecting"]

\* catch (error): updateScrapingJob(jobId, {status: 'failed', errors}), then
\* the failure event.  A raising update escapes the catch: the promise will
\* reject, after the finally block.
MarkFailed(j, ok, logOk) ==
    /\ proc[j].pc = "markFailed"
    /\ IF ok
       THEN /\ store' = [store EXCEPT ![j] = updateScrapingJob(@, failedUpdate(proc[j].error))]
            /\ stamps' = [stamps EXCEPT ![j] = stampWrites(@, failedUpdate(proc[j].error))]
            /\ scrapingLogs' = logScrapingEvent(scrapingLogs, "error", "Scraping job failed", j, "", logOk)
            /\ proc' = [proc EXCEPT ![j].pc = "cleanup"]
            /\ hist' = [hist EXCEPT ![j] = Fault(@, logOk)]
       ELSE /\ logOk
            /\ proc' = [proc EXCEPT ![j] = catchRethrow(@)]
            /\ hist' = [hist EXCEPT ![j] = [Fault(@, FALSE) EXCEPT !.raised = @ \cup {"markFailed"}]]
            /\ UNCHANGED <<store, stamps, scrapingLogs>>
    /\ UNCHANGED <<runningJobs, scraper>>

\* finally: await scraper.cleanup().  A raising cleanup rejects the promise.
Cleanup(j, ok) ==
    /\ proc[j].pc = "cleanup"
    /\ scraper' = [scraper EXCEPT ![j].cleaned = @ + 1,
                                  ![j].state = IF ok THEN "cleaned" ELSE @]
    /\ proc' = [proc EXCEPT ![j].pc = "settled",
                            ![j].promise = IF ok /\ @ = "pending" THEN "resolved" ELSE "rejected"]
    /\ hist' = [hist EXCEPT ![j] = IF ok THEN @
                                   ELSE [Fault(@, FALSE) EXCEPT !.raised = @ \cup {"cleanup"}]]
    /\ UNCHANGED <<store, stamps, runningJobs, scrapingLogs>>

\* The entry deleted only when the promise resolves: then, not finally.
PromiseThen(j) ==
    /\ proc[j].pc = "settled"
    /\ runningJobs' = IF proc[j].promise = "resolved" THEN runningJobs \ {j} ELSE runningJobs
    /\ proc' = [proc EXCEPT ![j].pc = "done"]
    /\ UNCHANGED <<store, stamps, scrapingLogs, scraper, hist>>

\* jobPromise.finally(() => this.runningJobs.delete(jobId))
PromiseFinally(j) ==
    /\ proc[j].pc = "settled"
    /\ runningJobs' = runningJobs \ {j}
    /\ proc' = [proc EXCEPT ![j].pc = "done"]
    /\ UNCHANGED <<store, stamps, scrapingLogs, scraper, hist>>

(***************************************************************************)
(* RateLimiter.  One caller: each waitIfNeeded is awaited before the next  *)
(* is issued.  Timers fire on time.                                        *)
(***************************************************************************)
WindowMs == 60000

\* this.requests.filter(timestamp => timestamp > oneMinuteAgo)
filterRecent(reqs, oneMinuteAgo) == SelectSeq(reqs, LAMBDA t : t > oneMinuteAgo)

\* The newest request taken for the oldest.
newestRequest(reqs) == CHOOSE t \in {reqs[i] : i \in DOMAIN reqs} :
                           \A i \in DOMAIN reqs : t >= reqs[i]

\* Math.min(...this.requests), of a non-empty list
oldestRequest(reqs) == CHOOSE t \in {reqs[i] : i \in DOMAIN reqs} :
                           \A i \in DOMAIN reqs : t <= reqs[i]

\* const waitTime = oldestRequest + 60000 - now
waitTime(reqs, t) == oldestRequest(reqs) + WindowMs - t

\* Whether waitIfNeeded suspends the caller, with what it kept of the list.
mustWait(kept, t) ==
    /\ Len(kept) >= config.requestsPerMinute
    /\ waitTime(kept, t) > 0

NoCall == [pc |-> "idle", now |-> 0, wakeAt |-> 0]

RLIdle ==
    /\ now = 0
    /\ requests = <<>>
    /\ config = [requestsPerMinute |-> 0]
    /\ call = NoCall
    /\ released = <<>>
    /\ waits = <<>>

RLInit ==
    /\ now = 0
    /\ requests = <<>>
    /\ config \in {[requestsPerMinute |-> n] : n \in 1..MaxRpm}
    /\ call = NoCall
    /\ released = <<>>
    /\ waits = <<>>

\* Time passes between two calls.
Tick ==
    /\ call.pc = "idle"
    /\ now + TickMs <= MaxTime
    /\ now' = now + TickMs
    /\ UNCHANGED <<requests, config, call, released, waits>>

\* waitIfNeeded up to its await: the list is purged; the caller is either
\* suspended, or its timestamp is pushed and the call returns.
WaitBegin ==
    /\ call.pc = "idle"
    /\ Len(released) < MaxCalls
    /\ LET kept == filterRecent(requests, now - WindowMs)
       IN  IF mustWait(kept, now)
           THEN /\ requests' = kept
                /\ call' = [pc |-> "sleeping", now |-> now, wakeAt |-> now + waitTime(kept, now)]
                /\ waits' = Append(waits, [at |-> now, before |-> requests,
                                           slept |-> waitTime(kept, now)])
                /\ UNCHANGED released
           ELSE /\ requests' = Append(kept, now)
                /\ call' = NoCall
                /\ waits' = Append(waits, [at |-> now, before |-> requests, slept |-> 0])
                /\ released' = Append(released, now)
    /\ UNCHANGED <<now, config>>

\* The sleep ends: this.requests.push(now), with the now of the call's start.
WaitResume ==
    /\ call.pc = "sleeping"
    /\ now' = call.wakeAt
    /\ requests' = Append(requests, call.now)
    /\ released' = Append(released, call.wakeAt)
    /\ call' = NoCall
    /\ UNCHANGED <<config, waits>>

(***************************************************************************)
(* RateLimiter.waitIfNeeded, called by several callers on one limiter: a   *)
(* caller may begin while others are suspended in sleep.  Timers fire on   *)
(* time: the clock does not pass a pending wake-up.                        *)
(***************************************************************************)
Callers == 1..MaxCallers

CLIdle == callers = [c \in Callers |-> NoCall]

Sleeping == {c \in Callers : callers[c].pc = "sleeping"}

\* Time passes, up to the next wake-up at most.
CLTick ==
    /\ now + TickMs <= MaxTime
    /\ \A c \in Sleeping : callers[c].wakeAt >= now + TickMs
    /\ now' = now + TickMs
    /\ UNCHANGED <<requests, config, call, released, waits, callers>>

\* Caller c: waitIfNeeded up to its await.
CLBegin(c) ==
    /\ callers[c].pc = "idle"
    /\ Len(released) + Cardinality(Sleeping) < MaxCalls
    /\ LET kept == filterRecent(requests, now - WindowMs)
       IN  IF mustWait(kept, now)
           THEN /\ requests' = kept
                /\ callers' = [callers EXCEPT ![c] = [pc |-> "sleeping", now |-> now,
                                                      wakeAt |-> now + waitTime(kept, now)]]
                /\ UNCHANGED released
           ELSE /\ requests' = Append(kept, now)
                /\ callers' = callers
                /\ released' = Append(released, now)
    /\ UNCHANGED <<now, config, call, waits>>

\* The sleep of caller c ends, the earliest pending one: this.requests.push(now)
\* with the now of the call's start, without a second look at the list.
CLResume(c) ==
    /\ c \in Sleeping
    /\ \A d \in Sleeping : callers[c].wakeAt <= callers[d].wakeAt
    /\ now' = Max(now, callers[c].wakeAt)
    /\ requests' = Append(requests, callers[c].now)
    /\ released' = Append(released, Max(now, callers[c].wakeAt))
    /\ callers' = [callers EXCEPT ![c] = NoCall]
    /\ UNCHANGED <<config, call, waits>>

(***************************************************************************)
(* ScraperUtils.withRetry, one call.  The error of the k-th invocation of  *)
(* the operation is k.                                                     *)
(***************************************************************************)
BaseDelayMs == 1000
CapDelayMs  == 10000

RECURSIVE Pow2(_)
Pow2(n) == IF n <= 0 THEN 1 ELSE 2 * Pow2(n - 1)

\* The backoff without its cap.
backoffDelayUncapped(attempt) == BaseDelayMs * Pow2(attempt - 1)

\* Math.min(1000 * Math.pow(2, attempt - 1), 10000)
backoffDelay(attempt) == Min(BaseDelayMs * Pow2(attempt - 1), CapDelayMs)

\* The loop entered once whatever maxRetries is.
retryCondAtLeastOnce(attempt, maxRetries) == attempt = 1 \/ attempt <= maxRetries

\* The loop condition of withRetry.
retryCond(attempt, maxRetries) == attempt <= maxRetries

\* A sleep after every failed attempt, the last one too.
sleepsAfterEvery(attempt, maxRetries) == attempt <= maxRetries

\* Whether a failed attempt is followed by a sleep.
sleepsAfter(attempt, maxRetries) == attempt < maxRetries

\* throw lastError || new Error(`${operationName} failed after ${maxRetries} attempts`)
thrown(lastError, operationName, maxRetries) ==
    IF lastError # 0
    THEN [kind |-> "operation", invocation |-> lastError, label |-> "", attempts |-> 0]
    ELSE [kind |-> "exhausted", invocation |-> 0, label |-> operationName, attempts |-> maxRetries]

NoThrow == [kind |-> "none", invocation |-> 0, label |-> "", attempts |-> 0]

OperationNames == {"operation", "page loading"}

RTIdle == rt = [pc |-> "idle", maxRetries |-> 0, operationName |-> "", attempt |-> 0,
                lastError |-> 0, invocations |-> 0, sleeps |-> <<>>,
                result |-> 0, raised |-> NoThrow]

\* After the loop, or when its condition fails: the throw.
retryLoop(r) ==
    IF retryCond(r.attempt, r.maxRetries)
    THEN [r EXCEPT !.pc = "attempt"]
    ELSE [r EXCEPT !.pc = "threw", !.raised = thrown(r.lastError, r.operationName, r.maxRetries)]

\* withRetry(operation, maxRetries, operationName) is called.
RetryCall(n, name) ==
    /\ rt.pc = "idle"
    /\ rt' = retryLoop([rt EXCEPT !.maxRetries = n, !.operationName = name, !.attempt = 1])

\* return await operation(), or its catch.
RetryAttempt(ok) ==
    /\ rt.pc = "attempt"
    /\ LET k == rt.invocations + 1
       IN  IF ok
           THEN rt' = [rt EXCEPT !.pc = "returned", !.invocations = k, !.result = k]
           ELSE IF sleepsAfter(rt.attempt, rt.maxRetries)
                THEN rt' = [rt EXCEPT !.pc = "sleeping", !.invocations = k, !.lastError = k,
                                      !.sleeps = Append(@, backoffDelay(rt.attempt))]
                ELSE rt' = retryLoop([rt EXCEPT !.invocations = k, !.lastError = k,
                                                !.attempt = @ + 1])

\* await this.sleep(delay) is over: attempt++
RetrySleepDone ==
    /\ rt.pc = "sleeping"
    /\ rt' = retryLoop([rt EXCEPT !.attempt = @ + 1])

(***************************************************************************)
(* DatabaseExporter.exportProperty.  MaxExports calls, from one job or from *)
(* several: a call may begin while another is in flight.  A sourceUrl is a *)
(* number, 0 the empty string; title stands for the required fields title  *)
(* and address, 0 when one is missing; price stands for the optional       *)
(* fields.  Prisma's upsert on MySQL is not one statement: the row is read *)
(* by its unique key, then updated or created; the unique index on         *)
(* source_url rejects a second row of the same key.                        *)
(***************************************************************************)
Exports == 1..MaxExports

Null == -1

\* v || null
orNull(v) == IF v = 0 THEN Null ELSE v

NoDto == [sourceUrl |-> 0, title |-> 0, price |-> 0]

\* The records call c may carry: any key or none, the required fields or not;
\* its field values tell the calls apart.
PropertyDtos(c) ==
    {[sourceUrl |-> u, title |-> t, price |-> c - 1] : u \in 0..MaxKeys, t \in {0, c}}

\* if (!propertyData.title || !propertyData.address || !propertyData.sourceUrl)
missingRequired(dto) == dto.title = 0 \/ dto.sourceUrl = 0

\* upsert: where: { sourceUrl }
findUnique(table, sourceUrl) == {r \in table : r.sourceUrl = sourceUrl}

\* upsert: update: { ... }
upsertUpdate(dto) == [title |-> dto.title, price |-> orNull(dto.price)]

\* upsert: create: { ..., sourceUrl }
upsertCreate(dto) ==
    [title |-> dto.title, price |-> orNull(dto.price), sourceUrl |-> dto.sourceUrl]

NoExport == [pc |-> "idle", dto |-> NoDto, found |-> FALSE, result |-> 0]

DbIdle ==
    /\ scrapedProperties = {}
    /\ xp = [c \in Exports |-> NoExport]
    /\ xlog = [started |-> <<>>, finished |-> <<>>]

\* exportProperty(propertyData) up to its await: the validation.
ExportProperty(c, dto) ==
    /\ xp[c].pc = "idle"
    /\ IF missingRequired(dto)
       THEN /\ xp' = [xp EXCEPT ![c] = [NoExport EXCEPT !.pc = "threw", !.dto = dto]]
            /\ xlog' = [started |-> Append(xlog.started, c),
                        finished |-> Append(xlog.finished, c)]
       ELSE /\ xp' = [xp EXCEPT ![c] = [NoExport EXCEPT !.pc = "upsert", !.dto = dto]]
            /\ xlog' = [xlog EXCEPT !.started = Append(@, c)]
    /\ UNCHANGED scrapedProperties

\* upsert, first half: the row of the key is looked up.
UpsertFind(c) ==
    /\ xp[c].pc = "upsert"
    /\ xp' = [xp EXCEPT ![c].pc = "write",
                        ![c].found = findUnique(scrapedProperties, xp[c].dto.sourceUrl) # {}]
    /\ UNCHANGED <<scrapedProperties, xlog>>

\* upsert, second half: the row found is updated, or a row is created, which
\* the unique index refuses when the key has a row by now; the error is
\* logged and rethrown (exportProperties catches it and goes on).
UpsertWrite(c) ==
    /\ xp[c].pc = "write"
    /\ LET dto  == xp[c].dto
           rows == findUnique(scrapedProperties, dto.sourceUrl)
       IN  IF xp[c].found
           THEN /\ scrapedProperties' =
                      (scrapedProperties \ rows) \cup
                      {upsertUpdate(dto) @@ r : r \in rows}
                /\ xp' = [xp EXCEPT ![c].pc = "returned",
                                    ![c].result = (CHOOSE r \in rows : TRUE).id]
           ELSE IF rows # {}
                THEN /\ scrapedProperties' = scrapedProperties
                     /\ xp' = [xp EXCEPT ![c].pc = "threw"]
                ELSE /\ scrapedProperties' = scrapedProperties \cup
                            {upsertCreate(dto) @@ [id |-> Cardinality(scrapedProperties) + 1]}
                     /\ xp' = [xp EXCEPT ![c].pc = "returned",
                                         ![c].result = Cardinality(scrapedProperties) + 1]
    /\ xlog' = [xlog EXCEPT !.finished = Append(@, c)]

(***************************************************************************)
(* DatabaseExporter.exportProperties, one batch: exportProperty is awaited  *)
(* for each record in turn.  The upsert of a record may raise (the store   *)
(* is down); within one batch no other writer comes between the lookup and *)
(* the write of an upsert.                                                 *)
(***************************************************************************)
\* The batches: up to MaxBatch records, the i-th drawn from PropertyDtos(i).
RECURSIVE BatchesOf(_)
BatchesOf(n) ==
    IF n = 0 THEN {<<>>}
    ELSE {Append(b, dto) : b \in BatchesOf(n - 1), dto \in PropertyDtos(n)}

Batches == UNION {BatchesOf(n) : n \in 0..MaxBatch}

NoBatch == [pc |-> "idle", properties |-> <<>>, idx |-> 0, propertyIds |-> <<>>,
            upserted |-> {}, failed |-> {}]

BXIdle == bx = NoBatch

\* The batch given up at the first record that fails.
exportFailedStops(b) == [b EXCEPT !.idx = Len(b.properties) + 1, !.failed = @ \cup {b.idx}]

\* catch of exportProperties: the error is logged, the loop goes on.
exportFailed(b) == [b EXCEPT !.idx = @ + 1, !.failed = @ \cup {b.idx}]

\* propertyIds.push(id)
exportSucceeded(b, id) ==
    [b EXCEPT !.idx = @ + 1, !.propertyIds = Append(@, id), !.upserted = @ \cup {b.idx}]

\* exportProperties(properties) is called on a table without rows.
BXCall(properties) ==
    /\ bx.pc = "idle"
    /\ bx' = [NoBatch EXCEPT !.pc = "loop", !.properties = properties, !.idx = 1]
    /\ UNCHANGED <<scrapedProperties, xp, xlog>>

\* One turn of the for-of: await this.exportProperty(property) validates and
\* upserts the record, or throws into the catch block.
BXItem(ok) ==
    /\ bx.pc = "loop"
    /\ bx.idx <= Len(bx.properties)
    /\ LET dto  == bx.properties[bx.idx]
           rows == findUnique(scrapedProperties, dto.sourceUrl)
           id   == Cardinality(scrapedProperties) + 1
       IN  IF missingRequired(dto) \/ ~ok
           THEN /\ bx' = exportFailed(bx)
                /\ scrapedProperties' = scrapedProperties
           ELSE IF rows # {}
                THEN /\ scrapedProperties' =
                           (scrapedProperties \ rows) \cup {upsertUpdate(dto) @@ r : r \in rows}
                     /\ bx' = exportSucceeded(bx, (CHOOSE r \in rows : TRUE).id)
                ELSE /\ scrapedProperties' =
                           scrapedProperties \cup {upsertCreate(dto) @@ [id |-> id]}
                     /\ bx' = exportSucceeded(bx, id)
    /\ UNCHANGED <<xp, xlog>>

\* return propertyIds
BXReturn ==
    /\ bx.pc = "loop"
    /\ bx.idx > Len(bx.properties)
    /\ bx' = [bx EXCEPT !.pc = "returned"]
    /\ UNCHANGED <<scrapedProperties, xp, xlog>>

(***************************************************************************)
(* BSDScraper.scrapePropertyList, one call.  The item URLs of the listing  *)
(* are 1..urls, in the order of the listing; the record of item k is k.    *)
(***************************************************************************)
maxConcurrent == 3

\* How a scrapeProperty call settles: fulfilled with a record, fulfilled with
\* null (its own catch), or rejected (no browser, createPage or page.close
\* raised).
ItemOutcomes == {"record", "null", "rejected"}

\* Every remaining item in one batch: fully parallel.
batchOfAll(i, n) == (i + 1)..n

\* propertyUrls.slice(i, i + maxConcurrent), as positions in the listing
batchOf(i, n) == (i + 1)..Min(i + maxConcurrent, n)

\* Every fulfilled result kept, null or not.
keptFulfilled(result) == result # "rejected"

\* result.status === 'fulfilled' && result.value
kept(result) == result = "record"

\* results.forEach: the records of the batch that are kept, in batch order.
pushed(i, n, results) ==
    SelectSeq(RangeSeq(i + 1, Min(i + maxConcurrent, n)), LAMBDA k : kept(results[k]))

\* if (i + maxConcurrent < propertyUrls.length)
sleepsAfterBatch(i, n) == i + maxConcurrent < n

NoList == [pc |-> "idle", urls |-> 0, i |-> 0, inFlight |-> {}, results |-> <<>>,
           properties |-> <<>>, attempted |-> {}, outcomes |-> <<>>,
           batches |-> 0, sleeps |-> 0]

SLIdle == sl = NoList

\* scrapePropertyList(url) up to its loop: the page is created (or the call
\* throws), the listing is loaded under withRetry and the item URLs are
\* extracted (or the catch block is entered and the empty list returned).
SLCall(how, n) ==
    /\ sl.pc = "idle"
    /\ sl' = CASE how = "threw"  -> [sl EXCEPT !.pc = "threw"]
              [] how = "caught" -> [sl EXCEPT !.pc = "closing"]
              [] OTHER          -> [sl EXCEPT !.pc = "loop", !.urls = n, !.i = 0]

\* The for test; batch.map(url => this.scrapeProperty(url)): every fetch of
\* the batch is started.
SLBatchStart ==
    /\ sl.pc = "loop"
    /\ IF sl.i < sl.urls
       THEN sl' = [sl EXCEPT !.pc = "await",
                             !.inFlight = batchOf(sl.i, sl.urls),
                             !.results = <<>>,
                             !.attempted = @ \cup batchOf(sl.i, sl.urls),
                             !.batches = @ + 1]
       ELSE sl' = [sl EXCEPT !.pc = "closing"]

\* One scrapeProperty call of the batch settles.
SLSettle(k, o) ==
    /\ sl.pc = "await"
    /\ k \in sl.inFlight
    /\ sl' = [sl EXCEPT !.inFlight = @ \ {k},
                        !.results = (k :> o) @@ @,
                        !.outcomes = (k :> o) @@ @]

\* await Promise.allSettled(batchPromises) returns: the results are gone
\* through, then the delay between batches.
SLBatchDone ==
    /\ sl.pc = "await"
    /\ sl.inFlight = {}
    /\ sl' = [sl EXCEPT !.properties = @ \o pushed(sl.i, sl.urls, sl.results),
                        !.pc = IF sleepsAfterBatch(sl.i, sl.urls) THEN "sleep" ELSE "loop",
                        !.i = IF sleepsAfterBatch(sl.i, sl.urls) THEN @ ELSE @ + maxConcurrent]

\* await ScraperUtils.sleep(2000) is over: i += maxConcurrent
SLSleepDone ==
    /\ sl.pc = "sleep"
    /\ sl' = [sl EXCEPT !.pc = "loop", !.i = @ + maxConcurrent, !.sleeps = @ + 1]

\* finally: await page.close(); return properties
SLClose(ok) ==
    /\ sl.pc = "closing"
    /\ sl' = [sl EXCEPT !.pc = IF ok THEN "returned" ELSE "threw"]

(***************************************************************************)
(* JsonExporter / CsvExporter.exportProperties.  MaxFileExports calls, from *)
(* one job or from several; the clock is in milliseconds, the resolution   *)
(* of toISOString().                                                       *)
(***************************************************************************)
FileExports == 1..MaxFileExports

FileTypes == {"json", "csv"}

\* new Date().toISOString().replace(/[:.]/g, '-'): one string per millisecond
timestampOf(t) == t

\* path.join(Config.PATHS.dataOutput, `properties-${timestamp}.${type}`)
filePathOf(type, t) == <<"properties", timestampOf(t), type>>

NoFileExport == [pc |-> "idle", type |-> "", filePath |-> <<>>]

FXIdle ==
    /\ clock = 0
    /\ files = <<>>
    /\ fx = [c \in FileExports |-> NoFileExport]

\* A millisecond passes.
FXTick ==
    /\ clock < MaxClock
    /\ clock' = clock + 1
    /\ UNCHANGED <<files, fx>>

\* exportProperties up to its first await: the file path is made from the
\* time of the call.
FXBegin(c, type) ==
    /\ fx[c].pc = "idle"
    /\ fx' = [fx EXCEPT ![c] = [pc |-> "write", type |-> type,
                                filePath |-> filePathOf(type, clock)]]
    /\ UNCHANGED <<clock, files>>

\* await fs.promises.writeFile(filePath, ...): the file is created, or
\* replaced when there is one of that path; a failed write is rethrown.
FXWrite(c, ok) ==
    /\ fx[c].pc = "write"
    /\ IF ok
       THEN /\ files' = (fx[c].filePath :> c) @@ files
            /\ fx' = [fx EXCEPT ![c].pc = "returned"]
       ELSE /\ files' = files
            /\ fx' = [fx EXCEPT ![c].pc = "threw"]
    /\ UNCHANGED clock

(***************************************************************************)
(* BSDScraper.initialize / cleanup, called in any order on an instance.    *)
(* The browsers an instance launched are numbered 1, 2, ... in the order   *)
(* of the launches; browser is this.browser, NoBrowser when undefined.     *)
(***************************************************************************)
Adapters == 1..MaxAdapters

NoBrowser == 0

NoAdapter == [browser |-> NoBrowser, launched |-> 0, open |-> {}, calls |-> 0,
              raised |-> 0, last |-> "none"]

ADIdle == ad = [a \in Adapters |-> NoAdapter]

\* this.browser = await ScraperUtils.createBrowser(): a launch that fails is
\* rethrown and this.browser keeps its value.
BSDInitialize(a, ok) ==
    /\ ad[a].calls < MaxAdapterCalls
    /\ ad' = [ad EXCEPT ![a] =
          IF ok
          THEN [@ EXCEPT !.browser = ad[a].launched + 1, !.launched = @ + 1,
                         !.open = @ \cup {ad[a].launched + 1},
                         !.calls = @ + 1, !.last = "initialize"]
          ELSE [@ EXCEPT !.calls = @ + 1, !.raised = @ + 1, !.last = "initialize"]]

\* if (this.browser) { await this.browser.close(); this.browser = undefined }
\* A close that throws leaves this.browser set.
BSDCleanup(a, ok) ==
    /\ ad[a].calls < MaxAdapterCalls
    /\ ad' = [ad EXCEPT ![a] =
          IF ad[a].browser = NoBrowser
          THEN [@ EXCEPT !.calls = @ + 1, !.last = "cleanup"]
          ELSE IF ok
               THEN [@ EXCEPT !.browser = NoBrowser, !.open = @ \ {ad[a].browser},
                              !.calls = @ + 1, !.last = "cleanup"]
               ELSE [@ EXCEPT !.calls = @ + 1, !.raised = @ + 1, !.last = "cleanup"]]

(***************************************************************************)
(* One adapter operation and the browser page it opens: getTotalPages,     *)
(* scrapePropertyList and scrapeProperty have the same frame: the browser  *)
(* test, ScraperUtils.createPage outside the try, page loading under       *)
(* withRetry with 3 attempts, the extraction, catch, finally page.close(). *)
(***************************************************************************)
AdapterOps == {"getTotalPages", "scrapePropertyList", "scrapeProperty"}

\* The second argument of withRetry in the three operations.
pageLoadAttempts == 3

\* The text of the last pagination link: no link, no text, text that is not
\* a number, or the decimal text of an integer.
PaginationTexts ==
    {[kind |-> k, value |-> 0] : k \in {"absent", "empty", "nan"}}
        \cup {[kind |-> "number", value |-> v] : v \in 0..MaxPageNumber}

\* The function getTotalPages evaluates in the page: parseInt(lastPageText)
\* when there is a link whose text is a number, 1 otherwise.
totalPagesOf(text) == IF text.kind = "number" THEN text.value ELSE 1

\* What a catch block returns: 1, the list collected so far (its length 0
\* here), null (-1).
caughtResult(name) ==
    CASE name = "getTotalPages"      -> 1
      [] name = "scrapePropertyList" -> 0
      [] OTHER                       -> Null

NoOp == [pc |-> "idle", name |-> "", page |-> "none", attempt |-> 0,
         result |-> Null, raised |-> "", caught |-> FALSE]

OPIdle == op = NoOp

\* The operation is called: if (!this.browser) throw new Error('Browser not initialized')
OPCall(name, browser) ==
    /\ op.pc = "idle"
    /\ op' = IF browser
             THEN [op EXCEPT !.pc = "createPage", !.name = name]
             ELSE [op EXCEPT !.pc = "threw", !.name = name, !.raised = "not initialized"]

\* const page = await ScraperUtils.createPage(this.browser), outside the try:
\* browser.newPage() may raise, and so may the calls that configure the page
\* it returned.
OPCreatePage(how) ==
    /\ op.pc = "createPage"
    /\ op' = CASE how = "created" -> [op EXCEPT !.pc = "load", !.page = "open", !.attempt = 1]
              [] how = "newPage"  -> [op EXCEPT !.pc = "threw", !.raised = "createPage"]
              [] OTHER            -> [op EXCEPT !.pc = "threw", !.page = "open",
                                                !.raised = "createPage"]

\* withRetry(page.goto ..., 3, ...): one attempt; after the last failed one
\* the error is thrown into the catch block of the operation.
OPLoad(ok) ==
    /\ op.pc = "load"
    /\ op' = IF ok THEN [op EXCEPT !.pc = "extract"]
             ELSE IF op.attempt < pageLoadAttempts THEN [op EXCEPT !.attempt = @ + 1]
             ELSE [op EXCEPT !.pc = "closing", !.caught = TRUE,
                             !.result = caughtResult(op.name)]

\* The extraction: page.evaluate of getTotalPages, the body of the other
\* operations (n is what they obtained); a throw is caught.
OPExtract(ok, text, n) ==
    /\ op.pc = "extract"
    /\ op' = IF ok
             THEN [op EXCEPT !.pc = "closing",
                             !.result = IF op.name = "getTotalPages" THEN totalPagesOf(text) ELSE n]
             ELSE [op EXCEPT !.pc = "closing", !.caught = TRUE,
                             !.result = caughtResult(op.name)]

\* finally: await page.close(): a close that raises replaces the return, and
\* the page may or may not be gone.
OPClose(ok, gone) ==
    /\ op.pc = "closing"
    /\ op' = IF ok
             THEN [op EXCEPT !.pc = "returned", !.page = "closed"]
             ELSE [op EXCEPT !.pc = "threw", !.raised = "close", !.result = Null,
                             !.page = IF gone THEN "closed" ELSE "open"]

(***************************************************************************)
(* Retention: JobManagementService.cleanupOldJobs against the rows the     *)
(* orchestrator creates and updates.  Time is in days; a row that was      *)
(* deleted has the status "deleted" (its id is never used again).          *)
(***************************************************************************)
Rows == 1..MaxRows

NoJobRow == [status |-> "none", completedAt |-> Null]

DeletedRow == [status |-> "deleted", completedAt |-> Null]

\* The statuses the orchestrator writes to a row of the given status.
NextStatuses(status) ==
    CASE status = "pending" -> {"running", "failed"}
      [] status = "running" -> {"completed", "failed"}
      [] OTHER              -> {}

\* Every row whose completedAt is before the cutoff, null included.
matchesCleanupAnyStatus(row, cutoff) ==
    row.status \notin {"none", "deleted"} /\ row.completedAt < cutoff

\* The where clause of deleteMany: status in [completed, failed] and
\* completedAt lt cutoffDate (a null completedAt matches no lt).
matchesCleanup(row, cutoff) ==
    /\ row.status \in {"completed", "failed"}
    /\ row.completedAt # Null
    /\ row.completedAt < cutoff

\* new Date(Date.now() - daysToKeep * 24 * 60 * 60 * 1000)
cutoffDate(t, daysToKeep) == t - daysToKeep

RNIdle ==
    /\ jobTable = [j \in Rows |-> NoJobRow]
    /\ today = 0
    /\ lastCleanup = [calls |-> 0, cutoff |-> 0, count |-> 0]

\* A day passes.
RNTick ==
    /\ today < MaxDays
    /\ today' = today + 1
    /\ UNCHANGED <<jobTable, lastCleanup>>

\* createScrapingJob(source, 'pending', config): completedAt null.
RNCreate(j) ==
    /\ jobTable[j] = NoJobRow
    /\ jobTable' = [jobTable EXCEPT ![j] = [status |-> "pending", completedAt |-> Null]]
    /\ UNCHANGED <<today, lastCleanup>>

\* updateScrapingJob(jobId, {status, ...}) by the orchestrator: completedAt
\* is stamped on completed and failed.
RNUpdate(j, status) ==
    /\ status \in NextStatuses(jobTable[j].status)
    /\ jobTable' = [jobTable EXCEPT ![j] =
          [status |-> status,
           completedAt |-> IF status \in {"completed", "failed"} THEN today ELSE @.completedAt]]
    /\ UNCHANGED <<today, lastCleanup>>

\* cleanupOldJobs(daysToKeep): deleteMany, the count returned.
cleanupOldJobs(daysToKeep) ==
    LET cutoff == cutoffDate(today, daysToKeep)
        gone   == {j \in Rows : matchesCleanup(jobTable[j], cutoff)}
    IN  /\ jobTable' = [j \in Rows |-> IF j \in gone THEN DeletedRow ELSE jobTable[j]]
        /\ lastCleanup' = [calls |-> 1 - lastCleanup.calls, cutoff |-> cutoff,
                           count |-> Cardinality(gone)]
        /\ UNCHANGED today

(***************************************************************************)
(* The specifications.                                                     *)
(***************************************************************************)
Init == JobInit /\ RLIdle /\ RTIdle /\ DbIdle /\ SLIdle /\ FXIdle /\ ADIdle /\ OPIdle /\ CLIdle /\ BXIdle /\ RNIdle

otherThanJob == <<now, requests, config, call, released, waits, rt, dbVars, slVars, fxVars, adVars, opVars, clVars, bxVars, rnVars>>
otherThanRL  == <<store, stamps, runningJobs, scrapingLogs, proc, scraper, hist, rt, dbVars, slVars, fxVars, adVars, opVars, clVars, bxVars, rnVars>>
otherThanRT  == <<store, stamps, runningJobs, scrapingLogs, proc, scraper, hist,
                  now, requests, config, call, released, waits, dbVars, slVars, fxVars, adVars, opVars, clVars, bxVars, rnVars>>
otherThanDb  == <<store, stamps, runningJobs, scrapingLogs, proc, scraper, hist,
                  now, requests, config, call, released, waits, rt, slVars, fxVars, adVars, opVars, clVars, bxVars, rnVars>>
otherThanSL  == <<jobVars, rlVars, rtVars, dbVars, fxVars, adVars, opVars, clVars, bxVars, rnVars>>
otherThanFX  == <<jobVars, rlVars, rtVars, dbVars, slVars, adVars, opVars, clVars, bxVars, rnVars>>
otherThanAD  == <<jobVars, rlVars, rtVars, dbVars, slVars, fxVars, opVars, clVars, bxVars, rnVars>>
otherThanOP  == <<jobVars, rlVars, rtVars, dbVars, slVars, fxVars, adVars, clVars, bxVars, rnVars>>
otherThanCL  == <<jobVars, rtVars, dbVars, slVars, fxVars, adVars, opVars, bxVars, rnVars>>
otherThanBX  == <<jobVars, rlVars, rtVars, slVars, fxVars, adVars, opVars, clVars, rnVars>>
otherThanRN  == <<jobVars, rlVars, rtVars, dbVars, slVars, fxVars, adVars, opVars, clVars, bxVars>>

Next ==
    \E j \in SoloJobs :
        \/ \E s \in 1..MaxPages, l \in 1..MaxPages, e \in ExporterLists :
               createScrapingJob(j, s, l, e) /\ UNCHANGED otherThanJob
        \/ \E ok \in Outcomes(j) : startBackgroundJob(j, ok) /\ UNCHANGED otherThanJob
        \/ \E ok \in Outcomes(j), logOk \in Outcomes(j) :
               MarkRunning(j, ok, logOk) /\ UNCHANGED otherThanJob
        \/ \E ok \in Outcomes(j) : Initialize(j, ok) /\ UNCHANGED otherThanJob
        \/ \E ok \in Outcomes(j), n \in 0..MaxPages :
               GetTotalPages(j, ok, n) /\ UNCHANGED otherThanJob
        \/ \E ok \in Outcomes(j) : LoopHead(j, ok) /\ UNCHANGED otherThanJob
        \/ \E ok \in Outcomes(j), n \in 0..MaxRecords :
               ScrapePropertyList(j, ok, n) /\ UNCHANGED otherThanJob
        \/ \E ok \in Outcomes(j), logOk \in Outcomes(j) :
               ExportProperties(j, ok, logOk) /\ UNCHANGED otherThanJob
        \/ Sleep(j) /\ UNCHANGED otherThanJob
        \/ \E ok \in Outcomes(j), logOk \in Outcomes(j) :
               MarkCompleted(j, ok, logOk) /\ UNCHANGED otherThanJob
        \/ \E ok \in Outcomes(j), logOk \in Outcomes(j) :
               MarkFailed(j, ok, logOk) /\ UNCHANGED otherThanJob
        \/ \E ok \in Outcomes(j) : Cleanup(j, ok) /\ UNCHANGED otherThanJob
        \/ PromiseFinally(j) /\ UNCHANGED otherThanJob

Spec == Init /\ [][Next]_vars

\* Concurrent jobs: every job of Jobs may be created and the jobs' steps
\* interleave at their awaits.  Each job is the same small request: one page
\* from page 1, of a listing of two pages, to the database exporter; the
\* factories, initialize() and cleanup() may raise.
ConcurrentNext ==
    \E j \in Jobs :
        \/ createScrapingJob(j, 1, 1, <<"database">>) /\ UNCHANGED otherThanJob
        \/ \E ok \in Outcomes(j) : startBackgroundJob(j, ok) /\ UNCHANGED otherThanJob
        \/ MarkRunning(j, TRUE, TRUE) /\ UNCHANGED otherThanJob
        \/ \E ok \in Outcomes(j) : Initialize(j, ok) /\ UNCHANGED otherThanJob
        \/ GetTotalPages(j, TRUE, 2) /\ UNCHANGED otherThanJob
        \/ LoopHead(j, TRUE) /\ UNCHANGED otherThanJob
        \/ ScrapePropertyList(j, TRUE, 1) /\ UNCHANGED otherThanJob
        \/ ExportProperties(j, TRUE, TRUE) /\ UNCHANGED otherThanJob
        \/ Sleep(j) /\ UNCHANGED otherThanJob
        \/ MarkCompleted(j, TRUE, TRUE) /\ UNCHANGED otherThanJob
        \/ MarkFailed(j, TRUE, TRUE) /\ UNCHANGED otherThanJob
        \/ \E ok \in Outcomes(j) : Cleanup(j, ok) /\ UNCHANGED otherThanJob
        \/ PromiseFinally(j) /\ UNCHANGED otherThanJob

ConcurrentSpec == Init /\ [][ConcurrentNext]_vars

DatabaseExporterNext ==
    \E c \in Exports :
        \/ \E dto \in PropertyDtos(c) : ExportProperty(c, dto) /\ UNCHANGED otherThanDb
        \/ UpsertFind(c) /\ UNCHANGED otherThanDb
        \/ UpsertWrite(c) /\ UNCHANGED otherThanDb

DatabaseExporterSpec == Init /\ [][DatabaseExporterNext]_vars

BatchExportNext ==
    \/ \E properties \in Batches : BXCall(properties) /\ UNCHANGED otherThanBX
    \/ \E ok \in BOOLEAN : BXItem(ok) /\ UNCHANGED otherThanBX
    \/ BXReturn /\ UNCHANGED otherThanBX

BatchExportSpec == Init /\ [][BatchExportNext]_vars

RetentionNext ==
    \/ RNTick /\ UNCHANGED otherThanRN
    \/ \E j \in Rows : RNCreate(j) /\ UNCHANGED otherThanRN
    \/ \E j \in Rows, status \in {"running", "completed", "failed"} :
           RNUpdate(j, status) /\ UNCHANGED otherThanRN
    \/ \E daysToKeep \in 0..MaxDaysToKeep :
           cleanupOldJobs(daysToKeep) /\ UNCHANGED otherThanRN

RetentionSpec == Init /\ [][RetentionNext]_vars

ScrapeListNext ==
    \/ \E how \in {"loaded", "caught", "threw"}, n \in 0..MaxUrls :
           SLCall(how, n) /\ UNCHANGED otherThanSL
    \/ SLBatchStart /\ UNCHANGED otherThanSL
    \/ \E k \in 1..MaxUrls, o \in ItemOutcomes : SLSettle(k, o) /\ UNCHANGED otherThanSL
    \/ SLBatchDone /\ UNCHANGED otherThanSL
    \/ SLSleepDone /\ UNCHANGED otherThanSL
    \/ \E ok \in BOOLEAN : SLClose(ok) /\ UNCHANGED otherThanSL

ScrapeListSpec == Init /\ [][ScrapeListNext]_vars

FileExporterNext ==
    \/ FXTick /\ UNCHANGED otherThanFX
    \/ \E c \in FileExports :
           \/ \E type \in FileTypes : FXBegin(c, type) /\ UNCHANGED otherThanFX
           \/ \E ok \in BOOLEAN : FXWrite(c, ok) /\ UNCHANGED otherThanFX

FileExporterSpec == Init /\ [][FileExporterNext]_vars

AdapterNext ==
    \E a \in Adapters, ok \in BOOLEAN :
        \/ BSDInitialize(a, ok) /\ UNCHANGED otherThanAD
        \/ BSDCleanup(a, ok) /\ UNCHANGED otherThanAD

AdapterSpec == Init /\ [][AdapterNext]_vars

AdapterOpNext ==
    \/ \E name \in AdapterOps, browser \in BOOLEAN :
           OPCall(name, browser) /\ UNCHANGED otherThanOP
    \/ \E how \in {"created", "newPage", "configure"} :
           OPCreatePage(how) /\ UNCHANGED otherThanOP
    \/ \E ok \in BOOLEAN : OPLoad(ok) /\ UNCHANGED otherThanOP
    \/ \E ok \in BOOLEAN, text \in PaginationTexts, n \in 0..MaxRecords :
           OPExtract(ok, text, n) /\ UNCHANGED otherThanOP
    \/ \E ok \in BOOLEAN, gone \in BOOLEAN : OPClose(ok, gone) /\ UNCHANGED otherThanOP

AdapterOpSpec == Init /\ [][AdapterOpNext]_vars

RateLimiterInit == JobInit /\ RLInit /\ RTIdle /\ DbIdle /\ SLIdle /\ FXIdle /\ ADIdle /\ OPIdle /\ CLIdle /\ BXIdle /\ RNIdle

RateLimiterNext ==
    \/ Tick /\ UNCHANGED otherThanRL
    \/ WaitBegin /\ UNCHANGED otherThanRL
    \/ WaitResume /\ UNCHANGED otherThanRL

RateLimiterSpec == RateLimiterInit /\ [][RateLimiterNext]_vars

ConcurrentLimiterNext ==
    \/ CLTick /\ UNCHANGED otherThanCL
    \/ \E c \in Callers : CLBegin(c) /\ UNCHANGED otherThanCL
    \/ \E c \in Callers : CLResume(c) /\ UNCHANGED otherThanCL

ConcurrentLimiterSpec == RateLimiterInit /\ [][ConcurrentLimiterNext]_vars

RetryInit == JobInit /\ RLIdle /\ RTIdle /\ DbIdle /\ SLIdle /\ FXIdle /\ ADIdle /\ OPIdle /\ CLIdle /\ BXIdle /\ RNIdle

RetryNext ==
    \/ \E n \in -1..MaxAttempts, name \in OperationNames :
           RetryCall(n, name) /\ UNCHANGED otherThanRT
    \/ \E ok \in BOOLEAN : RetryAttempt(ok) /\ UNCHANGED otherThanRT
    \/ RetrySleepDone /\ UNCHANGED otherThanRT

RetrySpec == RetryInit /\ [][RetryNext]_vars

(***************************************************************************)
(* The claims.                                                             *)
(***************************************************************************)
\* totalPages is known: the crawl loop has begun.
LoopStarted(j) == proc[j].totalPages # -1

\* The loop has ended.
AfterLoop(j) ==
    /\ LoopStarted(j)
    /\ proc[j].pc \in {"markCompleted", "markFailed", "cleanup", "settled", "done"}

\* min(totalPages, start + limit - 1)
LastPage(j) == Min(proc[j].totalPages, proc[j].start + proc[j].limit - 1)

IsPrefix(a, b) == Len(a) <= Len(b) /\ \A i \in 1..Len(a) : a[i] = b[i]

Ascending(q) == \A i \in 1..Len(q) - 1 : q[i] < q[i + 1]

\* C1: for start >= 1, limit >= 1 and start <= totalPages the crawl loop
\* requests exactly the pages start, start+1, ..., min(totalPages,
\* start+limit-1), each once, in strictly ascending order, and no page outside
\* that range: while the loop runs the pages visited are a prefix of that
\* list, when it has ended they are the whole list, and scrapePropertyList is
\* called only for visited pages, in ascending order.
C1_PagesInRange ==
    \A j \in Jobs :
        (LoopStarted(j) /\ proc[j].start >= 1 /\ proc[j].limit >= 1
                        /\ proc[j].start <= proc[j].totalPages) =>
            /\ IsPrefix(hist[j].visited, RangeSeq(proc[j].start, LastPage(j)))
            /\ AfterLoop(j) => hist[j].visited = RangeSeq(proc[j].start, LastPage(j))
            /\ Ascending(hist[j].scrapeCalls)
            /\ \A i \in 1..Len(hist[j].scrapeCalls) :
                   \E k \in 1..Len(hist[j].visited) : hist[j].visited[k] = hist[j].scrapeCalls[i]

\* A job whose limit, not totalPages, ended the loop: totalPages = 3, start = 1,
\* limit = 2, pages 1 and 2 fetched.
C1_Witness ==
    \E j \in Jobs :
        /\ AfterLoop(j)
        /\ proc[j].totalPages = 3 /\ proc[j].start = 1 /\ proc[j].limit = 2
        /\ hist[j].scrapeCalls = <<1, 2>>

\* The status changes the specification's state machine allows.
StatusEdges == {<<"none", "pending">>, <<"pending", "running">>,
                <<"running", "completed">>, <<"running", "failed">>}

\* C2 as stated: the persisted status moves only along pending -> running ->
\* completed and pending -> running -> failed; nothing leaves completed or
\* failed.
C2_OnlySpecEdges ==
    [][\A j \in Jobs :
          store'[j].status # store[j].status =>
              <<store[j].status, store'[j].status>> \in StatusEdges]_vars

\* C2, amended: the persisted status moves only along pending -> running ->
\* completed, pending -> running -> failed, or pending -> failed when the
\* store update that marks the job running raised; nothing leaves completed
\* or failed.
C2_StatusEdges ==
    [][\A j \in Jobs :
          store'[j].status # store[j].status =>
              \/ <<store[j].status, store'[j].status>> \in StatusEdges
              \/ /\ <<store[j].status, store'[j].status>> = <<"pending", "failed">>
                 /\ "markRunning" \in hist[j].raised]_vars

\* A job that went from pending to failed and ran to its end.
C2_Witness ==
    \E j \in Jobs :
        /\ proc[j].pc = "done"
        /\ store[j].status = "failed"
        /\ "markRunning" \in hist[j].raised

\* The recorded timestamps (or release times) of q in the 60-second window
\* that ends at q[i].
InWindowEndingAt(q, i) == {k \in DOMAIN q : q[k] > q[i] - WindowMs /\ q[k] <= q[i]}

\* C3: with requestsPerMinute = N, after any sequence of waitIfNeeded calls no
\* 60-second window contains more than N recorded timestamps.
C3_WindowHoldsAtMostN ==
    call.pc = "idle" =>
        \A i \in DOMAIN requests :
            Cardinality(InWindowEndingAt(requests, i)) <= config.requestsPerMinute

\* C4: with requestsPerMinute = N and each call awaited before the next, the
\* number of calls released within any rolling 60-second interval never
\* exceeds N.
C4_ReleasesAtMostN ==
    \A i \in DOMAIN released :
        Cardinality(InWindowEndingAt(released, i)) <= config.requestsPerMinute

\* The timestamps of reqs in the trailing 60-second window at time t.
TrailingWindow(reqs, t) == {i \in DOMAIN reqs : reqs[i] > t - WindowMs}

\* C5: with requestsPerMinute = N, a call that finds N (or more) timestamps in
\* the trailing 60-second window is suspended for exactly (oldest of them +
\* 60s - now), which is never negative, and so is released only once that
\* oldest timestamp is at least 60s old; a call that finds fewer than N is not
\* suspended: it is released at the time it was issued.
C5_SuspendedUntilOldestExpires ==
    \A i \in DOMAIN waits :
        LET w   == waits[i]
            win == TrailingWindow(w.before, w.at)
        IN  IF Cardinality(win) >= config.requestsPerMinute
            THEN \E o \in win :
                     /\ \A k \in win : w.before[o] <= w.before[k]
                     /\ w.slept = w.before[o] + WindowMs - w.at
                     /\ w.slept >= 0
                     /\ i <= Len(released) =>
                            /\ released[i] = w.at + w.slept
                            /\ released[i] - w.before[o] >= WindowMs
            ELSE /\ w.slept = 0
                 /\ i <= Len(released)
                 /\ released[i] = w.at

\* A call that found two timestamps in the window, slept until the older one
\* expired and returned; and an earlier call that was not suspended.
C5_Witness ==
    /\ config.requestsPerMinute = 2
    /\ \E i \in DOMAIN waits :
           /\ i <= Len(released)
           /\ Cardinality(TrailingWindow(waits[i].before, waits[i].at)) = 2
           /\ waits[i].slept > 0
    /\ \E i \in DOMAIN waits : waits[i].slept = 0

\* C6: withRetry with maxRetries = n >= 1 and an operation that always fails
\* invokes the operation exactly n times, sleeps exactly n-1 times, the k-th
\* sleep min(1000 * 2^(k-1), 10000) ms, never sleeps after the final attempt,
\* and raises the error of the last attempt.
C6_AlwaysFailing ==
    /\ (rt.pc = "threw" /\ rt.maxRetries >= 1) =>
           /\ rt.invocations = rt.maxRetries
           /\ rt.sleeps = [k \in 1..(rt.maxRetries - 1) |->
                               IF 1000 * 2^(k - 1) <= 10000 THEN 1000 * 2^(k - 1) ELSE 10000]
           /\ rt.raised.kind = "operation"
           /\ rt.raised.invocation = rt.maxRetries
    /\ rt.pc = "sleeping" => rt.invocations < rt.maxRetries

\* maxRetries = 3: three invocations, sleeps of 1000 and 2000 ms, the third
\* error raised.
C6_Witness ==
    /\ rt.pc = "threw"
    /\ rt.maxRetries = 3
    /\ rt.invocations = 3
    /\ rt.sleeps = <<1000, 2000>>
    /\ rt.raised.invocation = 3

\* The row the log store holds for a failed export of exporter e in job j.
ExportFailedLog(j, e) ==
    [level |-> "error", message |-> "Export failed", jobId |-> j, exporter |-> e]

\* Job j has ended, its promise settled and runningJobs cleaned.
Done(j) == proc[j].pc = "done"

\* C7: when an exporter's exportProperties throws during a page's fan-out,
\* every remaining exporter of the destination list is still invoked for that
\* page (after each fan-out the exporters invoked for the page are the whole
\* list, in order, and the calls made are one per exporter and obtained
\* page); and, in a job where nothing but exporters raised, an error log row
\* naming the failing exporter and the job id is there for every exporter that
\* threw, and the job ends completed with an empty error field.
C7_ExportFailureIsolated ==
    \A j \in Jobs :
        /\ proc[j].pc = "export" =>
               /\ hist[j].pageExports = SubSeq(proc[j].exporters, 1, proc[j].expIdx - 1)
               /\ hist[j].exportCalls =
                      (hist[j].pagesObtained - 1) * Len(proc[j].exporters) + proc[j].expIdx - 1
        /\ (proc[j].pc # "export" /\ hist[j].pagesObtained > 0) =>
               /\ hist[j].pageExports = proc[j].exporters
               /\ hist[j].exportCalls = hist[j].pagesObtained * Len(proc[j].exporters)
        /\ hist[j].nfaults = hist[j].exportFaults =>
               /\ \A e \in hist[j].exportThrew : ExportFailedLog(j, e) \in scrapingLogs
               /\ Done(j) => /\ store[j].status = "completed"
                             /\ store[j].errors = <<>>

\* A finished job with two exporters whose first exporter threw: the second
\* was still invoked, the row is logged, the job is completed.
C7_Witness ==
    \E j \in Jobs :
        /\ Done(j)
        /\ Len(proc[j].exporters) = 2
        /\ hist[j].exportThrew = {proc[j].exporters[1]}
        /\ hist[j].pageExports = proc[j].exporters
        /\ store[j].status = "completed"

\* C8: if getTotalPages raises, no page is fetched (scrapePropertyList is
\* never called) and no exporter is invoked for the job, and (nothing else
\* having raised) the job's final status is failed, with an error payload
\* holding the raised error's message and a timestamp.
C8_TotalPagesFailureIsFatal ==
    \A j \in Jobs :
        "getTotalPages" \in hist[j].raised =>
            /\ hist[j].visited = <<>>
            /\ hist[j].scrapeCalls = <<>>
            /\ hist[j].exportCalls = 0
            /\ (hist[j].raised = {"getTotalPages"}
                    /\ proc[j].pc \in {"cleanup", "settled", "done"}) =>
                   /\ store[j].status = "failed"
                   /\ Len(store[j].errors) = 1
                   /\ store[j].errors[1].message = "getTotalPages"
                   /\ store[j].errors[1].timestamp = "set"

C8_Witness ==
    \E j \in Jobs :
        /\ Done(j)
        /\ hist[j].raised = {"getTotalPages"}
        /\ store[j].status = "failed"

\* C9: if fetching one page fails (getPageUrl or scrapePropertyList raises),
\* the failure is caught inside the loop: the step that fails adds nothing to
\* the running total and goes on to the next page; once the loop has ended
\* every page of the range was attempted, in order, failed pages or not; and
\* a job in which nothing but page fetches raised ends completed, with no
\* error.
C9_PageFailureSkipsPage ==
    /\ [][\A j \in Jobs :
             hist'[j].failedPages # hist[j].failedPages =>
                 /\ proc'[j].totalProperties = proc[j].totalProperties
                 /\ proc'[j].pc = "loop"
                 /\ proc'[j].pageNum = proc[j].pageNum + 1
                 /\ store'[j] = store[j]]_vars
    /\ [](\A j \in Jobs :
             /\ AfterLoop(j) => hist[j].visited = RangeSeq(proc[j].start, LastPage(j))
             /\ (Done(j) /\ LoopStarted(j)
                         /\ hist[j].nfaults = Cardinality(hist[j].failedPages)) =>
                    /\ store[j].status = "completed"
                    /\ store[j].errors = <<>>)

\* A finished job whose first page failed and whose second page was fetched
\* with a record: the job is completed.
C9_Witness ==
    \E j \in Jobs :
        /\ Done(j)
        /\ proc[j].start \in hist[j].failedPages
        /\ proc[j].start + 1 \in {hist[j].scrapeCalls[i] : i \in DOMAIN hist[j].scrapeCalls}
        /\ hist[j].obtained > 0
        /\ store[j].status = "completed"

\* C10: when a job is finalized as completed, the persisted itemsFound and
\* itemsProcessed are equal and equal the number of records in the lists of
\* the pages whose list was obtained.
C10_ItemsAreTheSum ==
    \A j \in Jobs :
        store[j].status = "completed" =>
            /\ store[j].itemsFound = store[j].itemsProcessed
            /\ store[j].itemsFound = hist[j].obtained

\* A completed job with two records from two pages, and a failed page.
C10_Witness ==
    \E j \in Jobs :
        /\ store[j].status = "completed"
        /\ store[j].itemsFound = 2
        /\ hist[j].pagesObtained = 2
        /\ hist[j].failedPages # {}


\* C11: if start > totalPages, the loop performs zero iterations (no page is
\* visited, scrapePropertyList and the exporters are never called) and the
\* job, when the update that finalizes it did not raise, ends completed with
\* itemsFound = 0 and itemsProcessed = 0 and no error.
C11_StartBeyondTotalPages ==
    \A j \in Jobs :
        (LoopStarted(j) /\ proc[j].start > proc[j].totalPages) =>
            /\ hist[j].visited = <<>>
            /\ hist[j].scrapeCalls = <<>>
            /\ hist[j].exportCalls = 0
            /\ proc[j].pc \notin {"scrape", "export", "sleep"}
            /\ (Done(j) /\ "markCompleted" \notin hist[j].raised) =>
                   /\ store[j].status = "completed"
                   /\ store[j].itemsFound = 0
                   /\ store[j].itemsProcessed = 0
                   /\ store[j].errors = <<>>

\* A finished job with start = 3 and two pages in all: completed, no item.
C11_Witness ==
    \E j \in Jobs :
        /\ Done(j)
        /\ proc[j].start = 3
        /\ proc[j].totalPages = 2
        /\ store[j].status = "completed"
        /\ store[j].itemsFound = 0


\* C12: every created job ends with persisted status completed or failed,
\* whatever the collaborators did: once the background task of a job has
\* finished, its row is not pending and not running.
C12_FinishedJobIsTerminal ==
    \A j \in Jobs : Done(j) => store[j].status \in {"completed", "failed"}


\* The adapter instance of job j was acquired (getScraper returned).
Acquired(j) == scraper[j].state # "none"

\* The crawl of job j is over: the finally block has run.
Finalized(j) == proc[j].pc \in {"settled", "done"}

\* C13: for every job whose adapter instance was acquired, cleanup() is called
\* exactly once, after the crawl, on every path: it is never called twice,
\* never before the try block is left, and it has been called once when the
\* background task finishes: loop finished, pages failed, initialization or
\* total-page discovery raised, or a store update raised.
C13_CleanupExactlyOnce ==
    \A j \in Jobs :
        /\ scraper[j].cleaned <= 1
        /\ (Acquired(j) /\ Finalized(j)) => scraper[j].cleaned = 1
        /\ scraper[j].cleaned = 1 => (Acquired(j) /\ Finalized(j))

\* A finished job whose update to failed raised, cleaned up once.
C13_Witness ==
    \E j \in Jobs :
        /\ Done(j)
        /\ {"initialize", "markFailed"} \subseteq hist[j].raised
        /\ scraper[j].cleaned = 1


\* C14: if cleanup() raises while a job is being finalized, the error is not
\* re-raised: the background task of a job in which nothing raised inside the
\* catch block finishes with its promise resolved, no error escaping it.
C14_CleanupFailureSwallowed ==
    \A j \in Jobs :
        (Finalized(j) /\ "cleanup" \in hist[j].raised
                      /\ "markFailed" \notin hist[j].raised) =>
            proc[j].promise = "resolved"


\* The background processing of job j has started and not finished.
InBackground(j) == proc[j].pc \notin {"none", "created", "done"}

\* C15: a job id is in the running-job table exactly from the start of its
\* background processing to the end of it, whether the job succeeded or
\* failed and whether or not the store updates succeeded; once the background
\* task has finished the id is never in the table again.
C15_RunningJobsTable ==
    /\ [](\A j \in Jobs : j \in runningJobs <=> InBackground(j))
    /\ [][\A j \in Jobs : Done(j) => (Done(j)' /\ j \notin runningJobs')]_vars

\* A finished job whose promise rejected (the update to failed raised): its
\* id is out of the table.
C15_Witness ==
    \E j \in Jobs :
        /\ Done(j)
        /\ proc[j].promise = "rejected"
        /\ "markFailed" \in hist[j].raised
        /\ j \notin runningJobs


\* C16: every getScraper call returns a fresh adapter instance: the instance
\* a job holds is an object, is not the registered template, and is not the
\* instance of any other job, concurrent or finished, so that no two jobs
\* initialize, use or clean up the same instance.
C16_FreshAdapterPerJob ==
    \A j \in Jobs :
        Acquired(j) =>
            /\ scraper[j].ref # NullRef
            /\ scraper[j].ref # scrapers.bsd
            /\ \A k \in Jobs \ {j} : scraper[k].ref # scraper[j].ref

\* Two jobs in the background at once, each with its initialized instance.
C16_Witness ==
    \E j, k \in Jobs :
        /\ j # k
        /\ InBackground(j) /\ InBackground(k)
        /\ scraper[j].state = "initialized"
        /\ scraper[k].state = "initialized"


\* The position of call c in the order q.
Pos(q, c) == CHOOSE i \in DOMAIN q : q[i] = c

\* The exportProperty calls that carried a valid record of key k.
ExportsOf(k) ==
    {c \in Exports : xp[c].pc # "idle" /\ xp[c].dto.sourceUrl = k
                                        /\ ~missingRequired(xp[c].dto)}

\* The latest export of key k: the call that began after every other call of
\* the key began and ended after every other ended (none, when the calls
\* overlap so that no call is both).
LatestExportOf(k) ==
    {c \in ExportsOf(k) :
        \A d \in ExportsOf(k) \ {c} :
            /\ Pos(xlog.started, d) < Pos(xlog.started, c)
            /\ Pos(xlog.finished, d) < Pos(xlog.finished, c)}

\* C17: exporting records of the same natural key (sourceUrl) through the
\* database exporter any number of times, from one job or from several
\* concurrent jobs, leaves, once no export of the key is in flight, exactly
\* one stored entity for the key, holding the field values of the latest
\* export.
C17_UpsertIdempotent ==
    \A k \in 1..MaxKeys :
        (ExportsOf(k) # {} /\ \A c \in ExportsOf(k) : xp[c].pc \in {"returned", "threw"}) =>
            /\ Cardinality(findUnique(scrapedProperties, k)) = 1
            /\ \A c \in LatestExportOf(k), r \in findUnique(scrapedProperties, k) :
                   /\ r.title = xp[c].dto.title
                   /\ r.price = orNull(xp[c].dto.price)


\* The pages of job j whose record list was obtained.
ObtainedPages(j) ==
    {hist[j].scrapeCalls[i] : i \in DOMAIN hist[j].scrapeCalls}
        \ (hist[j].failedPages \cup (IF proc[j].pc = "scrape" THEN {proc[j].pageNum} ELSE {}))

\* The exporters invoked for page q of job j, in the order of the calls.
ExportersOf(j, q) ==
    LET calls == SelectSeq(hist[j].exportLog, LAMBDA x : x[1] = q)
    IN  [i \in DOMAIN calls |-> calls[i][2]]

\* C18: within one job, the exporters are invoked for a page only once the
\* record list of that page was obtained; when the fetch of a page is about
\* to start or in flight, the fan-out of every page obtained before is over
\* (all the selected exporters were invoked for it, in order); pages are
\* never fetched or exported out of ascending order.
C18_PageThenFanOutThenNextPage ==
    \A j \in Jobs :
        /\ \A i \in DOMAIN hist[j].exportLog : hist[j].exportLog[i][1] \in ObtainedPages(j)
        /\ proc[j].pc = "export" =>
               /\ proc[j].pageNum \in ObtainedPages(j)
               /\ \A q \in ObtainedPages(j) : q <= proc[j].pageNum
               /\ ExportersOf(j, proc[j].pageNum)
                      = SubSeq(proc[j].exporters, 1, proc[j].expIdx - 1)
        /\ \A q \in ObtainedPages(j) :
               (proc[j].pc # "export" \/ q # proc[j].pageNum) =>
                   ExportersOf(j, q) = proc[j].exporters
        /\ Ascending(hist[j].scrapeCalls)
        /\ \A i, k \in DOMAIN hist[j].exportLog :
               i < k => hist[j].exportLog[i][1] <= hist[j].exportLog[k][1]

\* The fetch of page 2 is in flight, page 1 was obtained and exported to two
\* exporters.
C18_Witness ==
    \E j \in Jobs :
        /\ proc[j].pc = "scrape"
        /\ proc[j].pageNum = 2
        /\ ObtainedPages(j) = {1}
        /\ Len(proc[j].exporters) = 2
        /\ ExportersOf(j, 1) = proc[j].exporters


\* Job j is about to make, is making or has made a network-facing adapter
\* call (initialize, getTotalPages, scrapePropertyList).
AdapterCalls(j) ==
    \/ proc[j].pc \in {"initialize", "getTotalPages", "loop", "scrape", "export",
                       "sleep", "markCompleted"}
    \/ scraper[j].initialized > 0
    \/ "initialize" \in hist[j].raised

\* The part of C19 that holds whatever the store does: the row is pending
\* when the background task is about to start, the update to running is
\* persisted at most once, and it was persisted, once, before any
\* network-facing adapter call of the job.
RunningBeforeAdapterCalls(j) ==
    /\ proc[j].pc = "created" => store[j].status = "pending"
    /\ stamps[j].started <= 1
    /\ AdapterCalls(j) => stamps[j].started = 1
    /\ (AdapterCalls(j) /\ ~Finalized(j) /\ proc[j].pc # "cleanup") =>
           store[j].status = "running"

\* C19 as stated: the job record is persisted pending before the background
\* task starts, and the transition to running is persisted exactly once per
\* job, before the first network-facing adapter call of the job.
C19_RunningExactlyOnce ==
    \A j \in Jobs :
        /\ RunningBeforeAdapterCalls(j)
        /\ Done(j) => stamps[j].started = 1

\* C19, amended: the job record is persisted pending before the background
\* task starts; the transition to running is persisted at most once per job,
\* and exactly once, before the first network-facing adapter call, in every
\* job whose adapter was resolved and whose update to running did not raise
\* (a job whose update raised makes no such call).
C19_RunningOnceBeforeAdapterCalls ==
    \A j \in Jobs :
        /\ RunningBeforeAdapterCalls(j)
        /\ (Done(j) /\ hist[j].raised \cap {"resolve", "markRunning"} = {}) =>
               stamps[j].started = 1
        /\ "markRunning" \in hist[j].raised =>
               (~AdapterCalls(j) /\ stamps[j].started = 0)

\* A finished job that made its adapter calls after running was persisted,
\* once.
C19_Witness ==
    \E j \in Jobs :
        /\ Done(j)
        /\ scraper[j].initialized = 1
        /\ hist[j].pagesObtained > 0
        /\ stamps[j].started = 1
        /\ store[j].startedAt = "set"


\* The part of C20 that holds whatever the store does: each timestamp is
\* written at most once; startedAt is set exactly when the update to running
\* was persisted, completedAt exactly when the row is completed or failed,
\* written by the one update that made it so.
TimestampsAtMostOnce(j) ==
    /\ stamps[j].started <= 1
    /\ stamps[j].completed <= 1
    /\ store[j].startedAt = "set" <=> stamps[j].started = 1
    /\ store[j].completedAt = "set" <=> stamps[j].completed = 1
    /\ store[j].completedAt = "set" <=> store[j].status \in {"completed", "failed"}
    /\ store[j].status = "running" => store[j].startedAt = "set"

\* C20 as stated: for every job, startedAt is written exactly once, at the
\* pending -> running transition, and completedAt exactly once, at the
\* transition into completed or failed; neither is written again, and
\* completedAt is never set while startedAt is unset.
C20_TimestampsExactlyOnce ==
    \A j \in Jobs :
        /\ TimestampsAtMostOnce(j)
        /\ store[j].completedAt = "set" => store[j].startedAt = "set"

\* C20, amended: startedAt is written at most once, by the update to running,
\* and completedAt at most once, by the update into completed or failed;
\* neither is written again; completedAt is set while startedAt is unset
\* exactly in a failed job whose update to running raised.
C20_TimestampsAtMostOnce ==
    \A j \in Jobs :
        /\ TimestampsAtMostOnce(j)
        /\ (store[j].completedAt = "set" /\ store[j].startedAt # "set") =>
               /\ store[j].status = "failed"
               /\ "markRunning" \in hist[j].raised
        /\ ("markRunning" \in hist[j].raised /\ store[j].completedAt = "set") =>
               store[j].startedAt # "set"

\* A finished job whose update to completed raised and whose update to failed
\* wrote completedAt: each timestamp written once.
C20_Witness ==
    \E j \in Jobs :
        /\ Done(j)
        /\ "markCompleted" \in hist[j].raised
        /\ store[j].status = "failed"
        /\ stamps[j] = [started |-> 1, completed |-> 1]


\* C21: both terminal transitions persist the job's counters: a row that is
\* completed or failed holds, in itemsFound and itemsProcessed, the records
\* accumulated so far, and a failed row holds a structured error with a
\* message and a timestamp.
C21_TerminalUpdatesPersistCounters ==
    \A j \in Jobs :
        /\ store[j].status \in {"completed", "failed"} =>
               /\ store[j].itemsFound = hist[j].obtained
               /\ store[j].itemsProcessed = hist[j].obtained
        /\ store[j].status = "failed" =>
               /\ Len(store[j].errors) = 1
               /\ store[j].errors[1].message # ""
               /\ store[j].errors[1].timestamp = "set"


\* The part of C22 about the failures of the loop: in a job in which nothing
\* raised but page fetches and exporters, the final status is completed and
\* the promise of processScrapingJob resolves; and the catch block is never
\* entered with a page's or an exporter's error.
LoopFailuresAbsorbed(j) ==
    /\ (Done(j) /\ hist[j].raised = {}) =>
           /\ store[j].status = "completed"
           /\ proc[j].promise = "resolved"
    /\ proc[j].pc = "markFailed" =>
           proc[j].error \in {"markRunning", "initialize", "getTotalPages", "markCompleted"}
    /\ proc[j].promise \in {"rejecting", "rejected"} =>
           hist[j].raised \cap {"resolve", "markFailed", "cleanup"} # {}

\* C22 as stated: a job's final status is failed only if adapter
\* initialization or total-page discovery raised; page-level, item-level and
\* export failures never produce status failed and are never thrown past
\* processScrapingJob.
C22_FailedOnlyByAdapterSetup ==
    \A j \in Jobs :
        /\ store[j].status = "failed" =>
               hist[j].raised \cap {"initialize", "getTotalPages"} # {}
        /\ LoopFailuresAbsorbed(j)

\* C22, amended: a job's final status is failed only if a step outside the
\* page loop raised: adapter initialization, total-page discovery, or the
\* store update to running or to completed; page-level, item-level and export
\* failures never produce status failed and are never thrown past
\* processScrapingJob.
C22_FailedOnlyOutsideLoop ==
    \A j \in Jobs :
        /\ store[j].status = "failed" =>
               /\ hist[j].raised \cap
                      {"markRunning", "initialize", "getTotalPages", "markCompleted"} # {}
               /\ store[j].errors[1].message \in
                      {"markRunning", "initialize", "getTotalPages", "markCompleted"}
               /\ store[j].errors[1].message \in hist[j].raised
        /\ LoopFailuresAbsorbed(j)

\* A finished job with a failed page that ended failed: the update to
\* completed raised.
C22_Witness ==
    \E j \in Jobs :
        /\ Done(j)
        /\ hist[j].failedPages # {}
        /\ store[j].status = "failed"
        /\ store[j].errors[1].message = "markCompleted"


\* The network-facing steps job j has issued: the total-page discovery and
\* the page fetches.
NetworkSteps(j) ==
    Len(hist[j].scrapeCalls)
        + (IF LoopStarted(j) \/ "getTotalPages" \in hist[j].raised THEN 1 ELSE 0)

\* C23: every network-facing step of a job's crawl (total-page discovery and
\* each page fetch) is admitted through the Rate Limiter before it is issued:
\* the limiter has released a waitIfNeeded call for every step issued so far.
C23_StepsAdmittedByRateLimiter ==
    \A j \in Jobs : NetworkSteps(j) <= Len(released)


\* C24: after each visited page the orchestrator sleeps the inter-page delay
\* before the next iteration, and it never sleeps after the last page the
\* loop visits, page min(totalPages, start + limit - 1): the pages slept
\* after are never that page and, once the loop has ended, are the pages of
\* the range before it.
C24_SleepBetweenPagesOnly ==
    \A j \in Jobs :
        LoopStarted(j) =>
            /\ \A i \in DOMAIN hist[j].sleeps : hist[j].sleeps[i] # LastPage(j)
            /\ AfterLoop(j) =>
                   hist[j].sleeps = RangeSeq(proc[j].start, LastPage(j) - 1)


\* C25: while one adapter scrapes a listing page, at no time are more than 3
\* scrapeProperty calls of that listing in flight, and a batch, of at most 3,
\* is started only after every fetch of the batches before it has settled.
C25_AtMostThreeInFlight ==
    /\ Cardinality(sl.inFlight) <= 3
    /\ sl.inFlight # {} => sl.pc = "await"
    /\ sl.pc = "await" =>
           /\ sl.inFlight \subseteq (sl.i + 1)..(sl.i + 3)
           /\ sl.attempted = 1..Min(sl.i + 3, sl.urls)
           /\ \A k \in 1..sl.i : k \in DOMAIN sl.outcomes
           /\ \A k \in sl.attempted \ sl.inFlight : k \in DOMAIN sl.outcomes

\* The second batch of a listing in flight, three fetches at once.
C25_Witness ==
    /\ sl.pc = "await"
    /\ sl.batches = 2
    /\ sl.inFlight = {4, 5, 6}

\* The records of the items 1..n that succeeded, in the order of the listing.
Succeeded(n) == SelectSeq(RangeSeq(1, n), LAMBDA k : sl.outcomes[k] = "record")

\* C26: within a batch, the failure of an item (rejected, or returning no
\* record) never cancels or discards its siblings: between two batches every
\* item attempted so far has settled, and the list scrapePropertyList returns
\* for a listing that was loaded holds exactly the records of the items that
\* succeeded, in the order of their URLs, every item having been attempted.
C26_ItemFailuresIsolated ==
    /\ sl.pc \in {"loop", "sleep", "closing", "returned"} =>
           /\ DOMAIN sl.outcomes = sl.attempted
           /\ sl.properties = Succeeded(Cardinality(sl.attempted))
    /\ sl.pc = "returned" =>
           /\ sl.attempted = 1..sl.urls
           /\ sl.properties = Succeeded(sl.urls)

\* A returned list of a listing whose first batch had a rejected item, a
\* record and an item without record, and whose second batch had a record.
C26_Witness ==
    /\ sl.pc = "returned"
    /\ sl.urls = 4
    /\ sl.outcomes[1] = "rejected"
    /\ sl.outcomes[2] = "record"
    /\ sl.outcomes[3] = "null"
    /\ sl.properties = <<2, 4>>


\* The export calls on file exporters that wrote their file.
Wrote == {c \in FileExports : fx[c].pc = "returned"}

\* C27: every export call on a file-based exporter produces a new output
\* artifact: two distinct export calls, from concurrent jobs or from one job,
\* never write to the same file path, so every call that wrote a file still
\* has its artifact.
C27_NewArtifactPerExport ==
    /\ \A a, b \in Wrote : a # b => fx[a].filePath # fx[b].filePath
    /\ \A c \in Wrote : files[fx[c].filePath] = c


\* C28: when withRetry has used up its attempts, the error it raises is the
\* last failure observed, and the operation label the caller passed can be
\* read from it.
C28_RaisedErrorCarriesLabel ==
    (rt.pc = "threw" /\ rt.invocations >= 1) =>
        /\ rt.raised.invocation = rt.invocations
        /\ rt.raised.label = rt.operationName


\* How often exporter e was invoked for page q of job j.
TimesInvoked(j, q, e) ==
    Cardinality({i \in DOMAIN hist[j].exportLog :
                    hist[j].exportLog[i][1] = q /\ hist[j].exportLog[i][2] = e})

\* The fan-out of page q of job j is over.
FanOutOver(j, q) == q \in ObtainedPages(j) /\ ~(proc[j].pc = "export" /\ proc[j].pageNum = q)

C30_InitializeIdempotent ==
    \A a \in Adapters :
        ad[a].raised = 0 =>
            /\ ad[a].open \subseteq {ad[a].browser}
            /\ ad[a].last = "cleanup" => ad[a].open = {}


\* C31: getTotalPages always returns an integer of at least 1 and never
\* raises: a call that is over has returned, and what it returned is >= 1.
C31_TotalPagesAtLeastOneNeverRaises ==
    (op.name = "getTotalPages" /\ op.pc \in {"returned", "threw"}) =>
        /\ op.pc = "returned"
        /\ op.result >= 1


\* C38: every browser page an adapter operation opened is closed by the time
\* the operation returns or raises: an operation that is over holds no open
\* page.
C38_NoPageLeftOpen ==
    op.pc \in {"returned", "threw"} => op.page # "open"


\* The steps of job j when jobs run side by side.
JobStep(j) ==
    \/ createScrapingJob(j, 1, 1, <<"database">>)
    \/ \E ok \in Outcomes(j) : startBackgroundJob(j, ok)
    \/ MarkRunning(j, TRUE, TRUE)
    \/ \E ok \in Outcomes(j) : Initialize(j, ok)
    \/ GetTotalPages(j, TRUE, 2)
    \/ LoopHead(j, TRUE)
    \/ ScrapePropertyList(j, TRUE, 1)
    \/ ExportProperties(j, TRUE, TRUE)
    \/ Sleep(j)
    \/ MarkCompleted(j, TRUE, TRUE)
    \/ MarkFailed(j, TRUE, TRUE)
    \/ \E ok \in Outcomes(j) : Cleanup(j, ok)
    \/ PromiseFinally(j)

\* C32: distinct jobs run without mutual exclusion: whatever the other jobs
\* are doing, a job that is not over always has a step it can take (no step
\* of a job waits on another job), and a step of one job leaves the position,
\* the row and the adapter of every other job as they were.
C32_NoJobWaitsOnAnother ==
    /\ [](\A j \in Jobs : ~Done(j) => ENABLED JobStep(j))
    /\ [][\A j \in Jobs : proc'[j] # proc[j] =>
             \A k \in Jobs \ {j} : /\ proc'[k] = proc[k]
                                   /\ store'[k] = store[k]
                                   /\ scraper'[k] = scraper[k]]_vars

\* Two jobs of the same source are in the running-job table at once, both
\* with the persisted status running.
C32_Witness ==
    \E j, k \in Jobs :
        /\ j # k
        /\ {j, k} \subseteq runningJobs
        /\ store[j].status = "running"
        /\ store[k].status = "running"


\* The releases within the 60 seconds that begin with release i.
InWindowStartingAt(q, i) == {k \in DOMAIN q : q[k] >= q[i] /\ q[k] < q[i] + WindowMs}

\* C33: when several callers invoke waitIfNeeded on one limiter concurrently
\* with requestsPerMinute = N, the callers released within any rolling
\* 60-second interval never exceed N.
C33_ConcurrentReleasesAtMostN ==
    \A i \in DOMAIN released :
        Cardinality(InWindowStartingAt(released, i)) <= config.requestsPerMinute


\* C34: if the operation first succeeds on attempt k (1 <= k <= maxRetries),
\* withRetry has invoked it exactly k times, has slept exactly k - 1 times
\* (the i-th sleep min(1000 * 2^(i-1), 10000) ms), returns the result of
\* invocation k and raises nothing; a call that returned takes no further
\* step.
C34_FirstSuccessOnAttemptK ==
    /\ [](rt.pc = "returned" =>
            /\ rt.invocations \in 1..rt.maxRetries
            /\ rt.attempt = rt.invocations
            /\ rt.result = rt.invocations
            /\ rt.lastError = rt.invocations - 1
            /\ Len(rt.sleeps) = rt.invocations - 1
            /\ \A i \in DOMAIN rt.sleeps :
                   rt.sleeps[i] = Min(BaseDelayMs * Pow2(i - 1), CapDelayMs)
            /\ rt.raised = NoThrow)
    /\ [][rt.pc = "returned" => rt' = rt]_vars

\* The operation succeeded on the last of six attempts, after five sleeps,
\* the fifth one capped.
C34_Witness ==
    /\ rt.pc = "returned"
    /\ rt.maxRetries = 6
    /\ rt.invocations = 6
    /\ rt.sleeps = <<1000, 2000, 4000, 8000, 10000>>


\* C40: withRetry called with maxRetries <= 0 never invokes the operation and
\* never sleeps, and instead of returning raises an error that names the
\* operation label and the attempt count.
C40_NoAttemptsAllowed ==
    (rt.pc # "idle" /\ rt.maxRetries <= 0) =>
        /\ rt.pc = "threw"
        /\ rt.invocations = 0
        /\ rt.sleeps = <<>>
        /\ rt.raised = [kind |-> "exhausted", invocation |-> 0,
                        label |-> rt.operationName, attempts |-> rt.maxRetries]

\* withRetry(operation, 0, 'page loading') has thrown.
C40_Witness ==
    /\ rt.pc = "threw"
    /\ rt.maxRetries = 0
    /\ rt.operationName = "page loading"
    /\ rt.raised.label = "page loading"


\* The records of the batch that were valid and whose upsert did not raise,
\* in input order.
Successful == SelectSeq(RangeSeq(1, Len(bx.properties)), LAMBDA i : i \in bx.upserted)

\* The row of key k.
RowOf(k) == CHOOSE r \in scrapedProperties : r.sourceUrl = k

\* The last successful record of the batch that has the key of record i.
LastOfKey(i) ==
    CHOOSE n \in bx.upserted :
        /\ bx.properties[n].sourceUrl = bx.properties[i].sourceUrl
        /\ \A m \in bx.upserted :
               bx.properties[m].sourceUrl = bx.properties[i].sourceUrl => m <= n

\* C35: the batch exportProperties isolates per-record failure: the call
\* never throws and every record gets its turn; a record that is invalid or
\* whose upsert raised is skipped and writes nothing; every other record is
\* upserted (its key has one row, holding the values of the last successful
\* record of that key); the list returned holds the row identifiers of
\* exactly the successful records, in input order.
C35_BatchIsolatesRecordFailure ==
    /\ bx.pc \in {"idle", "loop", "returned"}
    /\ bx.pc = "returned" =>
           /\ bx.upserted \cup bx.failed = DOMAIN bx.properties
           /\ bx.upserted \cap bx.failed = {}
           /\ \A i \in DOMAIN bx.properties :
                  missingRequired(bx.properties[i]) => i \in bx.failed
           /\ {r.sourceUrl : r \in scrapedProperties}
                  = {bx.properties[i].sourceUrl : i \in bx.upserted}
           /\ Cardinality(scrapedProperties)
                  = Cardinality({bx.properties[i].sourceUrl : i \in bx.upserted})
           /\ \A i \in bx.upserted :
                  /\ RowOf(bx.properties[i].sourceUrl).title = bx.properties[LastOfKey(i)].title
                  /\ RowOf(bx.properties[i].sourceUrl).price
                         = orNull(bx.properties[LastOfKey(i)].price)
           /\ Len(bx.propertyIds) = Len(Successful)
           /\ \A n \in DOMAIN Successful :
                  bx.propertyIds[n] = RowOf(bx.properties[Successful[n]].sourceUrl).id

\* A batch of three has returned: the first record was invalid, the upsert of
\* the second raised, the third was upserted and its identifier is the list
\* returned.
C35_Witness ==
    /\ bx.pc = "returned"
    /\ Len(bx.properties) = 3
    /\ missingRequired(bx.properties[1])
    /\ ~missingRequired(bx.properties[2])
    /\ bx.failed = {1, 2}
    /\ bx.upserted = {3}
    /\ Len(bx.propertyIds) = 1


\* C36: in every state a job whose persisted status is running has its id in
\* the running-job table (getJobStatus reports isCurrentlyRunning = true for
\* it); once the id has left the table the persisted status is not running.
C36_RunningStatusIsInTable ==
    \A j \in Jobs : store[j].status = "running" => j \in runningJobs


Exists(row) == row.status \notin {"none", "deleted"}

\* C39: job records are never deleted while pending or running: no step of
\* the orchestrator (create, update) deletes a row; a row that disappears
\* was completed or failed with a completedAt older than the cutoff of the
\* cleanupOldJobs call that removed it; that call leaves every other row as
\* it was and returns the number of rows it removed.
C39_OnlyOldFinishedJobsDeleted ==
    [][\A j \in Rows :
          /\ (Exists(jobTable[j]) /\ ~Exists(jobTable'[j])) =>
                 /\ lastCleanup' # lastCleanup
                 /\ jobTable[j].status \in {"completed", "failed"}
                 /\ jobTable[j].completedAt # Null
                 /\ jobTable[j].completedAt < lastCleanup'.cutoff
          /\ lastCleanup' # lastCleanup =>
                 /\ jobTable'[j] \in {jobTable[j], DeletedRow}
                 /\ lastCleanup'.count
                        = Cardinality({k \in Rows : jobTable'[k] # jobTable[k]})
                 /\ (jobTable[j].status \in {"completed", "failed"}
                        /\ jobTable[j].completedAt < lastCleanup'.cutoff)
                        => jobTable'[j] = DeletedRow]_vars

\* cleanupOldJobs has removed one finished row and left a pending row and
\* nothing else.
C39_Witness ==
    /\ lastCleanup.count = 1
    /\ \E j, k \in Rows :
           /\ jobTable[j] = DeletedRow
           /\ jobTable[k].status = "pending"

====
